---- MODULE Spec2Model ----
(***************************************************************************)
(* Model of morai/forecast/models.py: the GLM wrapper and the LeeCarter    *)
(* and CBD mortality models (structure_df -> fit -> forecast -> map).      *)
(*                                                                         *)
(* Numbers.  A float is the record [n, d] standing for n/d in lowest       *)
(* terms, d >= 0; d = 0 gives the IEEE specials: 1/0 is +inf, -1/0 is -inf *)
(* and 0/0 is NaN.  Arithmetic is exact (rounding is not modelled).        *)
(* Logarithms are kept in units of ln 2, so log is defined on the floats   *)
(* that are a power of two (and on 0, negatives and the specials); exp of  *)
(* a float x that is not special is the symbolic value [exp |-> x].        *)
(*                                                                         *)
(* None is the empty tuple <<>>, a set field holds <<v>>.                  *)
(* A DataFrame is [columns |-> sequence of names, rows |-> sequence of     *)
(* rows], a row being a function from the column names to values.         *)
(***************************************************************************)
EXTENDS Integers, Sequences, FiniteSets, TLC

VARIABLES
    self,   \* the model instance (its class in self.cls, then its fields)
    df,     \* the dataset the caller passed to the last call (<<>>: none)
    arg,    \* the other arguments of the last call, in order
    ret,    \* outcome of the last call: op, raised error, returned value
    hist    \* which calls have succeeded on this instance so far

vars == <<self, df, arg, ret, hist>>

----------------------------------------------------------------------------
(* Bounds of the model *)

MaxRows == 2

MaxYears == 2

----------------------------------------------------------------------------
(* Python values *)

None == <<>>

Some(v) == <<v>>

Get(o) == o[1]

Range(s) == {s[i] : i \in DOMAIN s}

Last(q) == q[Len(q)]

Abs(i) == IF i < 0 THEN -i ELSE i

Sign(i) == IF i < 0 THEN -1 ELSE IF i = 0 THEN 0 ELSE 1

RECURSIVE Gcd(_, _)
Gcd(a, b) == IF b = 0 THEN a ELSE Gcd(b, a % b)

\* the float N/D for integers N, D (D = 0 gives an IEEE special)
Mk(N, D) ==
    IF D = 0 THEN [n |-> Sign(N), d |-> 0]
    ELSE LET g == Gcd(Abs(N), Abs(D))
         IN  [n |-> Sign(D) * (N \div g), d |-> Abs(D) \div g]

NaN == [n |-> 0, d |-> 0]

PosInf == [n |-> 1, d |-> 0]

NegInf == [n |-> -1, d |-> 0]

Float(i) == [n |-> i, d |-> 1]

IsNaN(a) == a = NaN

IsSpecial(a) == a.d = 0

FNeg(a) == [n |-> -a.n, d |-> a.d]

FAdd(a, b) ==
    IF a.d = 0 /\ b.d = 0 THEN (IF a = b THEN a ELSE NaN)
    ELSE Mk(a.n * b.d + b.n * a.d, a.d * b.d)

FSub(a, b) == FAdd(a, FNeg(b))

FMul(a, b) == Mk(a.n * b.n, a.d * b.d)

\* true division: x/0 is +-inf, 0/0 is NaN, no exception
FDiv(a, b) ==
    IF b.n < 0 THEN Mk(-(a.n * b.d), a.d * (-b.n))
    ELSE Mk(a.n * b.d, a.d * b.n)

FGt(a, b) ==
    IF IsNaN(a) \/ IsNaN(b) THEN FALSE
    ELSE IF a.d = 0 /\ b.d = 0 THEN a.n > b.n
    ELSE a.n * b.d > b.n * a.d

RECURSIVE SumSeq(_)
SumSeq(s) == IF s = <<>> THEN 0 ELSE Head(s) + SumSeq(Tail(s))

\* pandas sum(skipna=True): NaN entries are left out, nothing left gives 0
RECURSIVE FSum(_)
FSum(s) ==
    IF s = <<>> THEN Float(0)
    ELSE IF IsNaN(Head(s)) THEN FSum(Tail(s))
    ELSE FAdd(Head(s), FSum(Tail(s)))

\* pandas mean(skipna=True): over the non-NaN entries, NaN when none is left
FMean(s) ==
    LET kept == SelectSeq(s, LAMBDA x : ~IsNaN(x))
    IN  IF kept = <<>> THEN NaN ELSE FDiv(FSum(kept), Float(Len(kept)))

----------------------------------------------------------------------------
(* DataFrames *)

DataFrame(columns, rows) == [columns |-> columns, rows |-> rows]

HasCol(d, c) == c \in Range(d.columns)

\* ascending order of a finite set of integers, as a sequence
RECURSIVE SortInts(_)
SortInts(S) ==
    IF S = {} THEN <<>>
    ELSE LET m == CHOOSE x \in S : \A y \in S : x <= y
         IN  <<m>> \o SortInts(S \ {m})

\* lexicographic order of a finite set of pairs of integers
RECURSIVE SortPairs(_)
SortPairs(S) ==
    IF S = {} THEN <<>>
    ELSE LET m == CHOOSE x \in S : \A y \in S :
                      x[1] < y[1] \/ (x[1] = y[1] /\ x[2] <= y[2])
         IN  <<m>> \o SortPairs(S \ {m})

Column(d, c) == [i \in DOMAIN d.rows |-> d.rows[i][c]]

Restrict(f, D) == [c \in D |-> f[c]]

\* DataFrame.drop(columns=C)
Drop(d, C) ==
    DataFrame(SelectSeq(d.columns, LAMBDA c : c \notin C),
              [i \in DOMAIN d.rows |-> Restrict(d.rows[i], Range(d.columns) \ C)])

----------------------------------------------------------------------------
(* LeeCarter.__init__ / CBD.__init__ : the configured column names and    *)
(* the empty calculation fields                                            *)

age_col == "attained_age"

year_col == "observation_year"

actual_col == "death_claim_amount"

expose_col == "amount_exposed"

LeeCarter_init ==
    [cls |-> "LeeCarter", a_x |-> None, k_t |-> None, b_x |-> None,
     b_x_k_t |-> None, lc_df |-> None, k_t_i |-> None]

CBD_init ==
    [cls |-> "CBD", age_diff |-> None, ages |-> None, k_t_1 |-> None,
     k_t_2 |-> None, cbd_df |-> None, k_1_f |-> None, k_2_f |-> None]

----------------------------------------------------------------------------
(* Errors: the exception type and the message's fixed part *)

NoError == "none"

NotFittedError == "ValueError: model is not fitted"

MissingColumnsError == "ValueError: Missing columns in DataFrame"

Raise(s, op, err, info) ==
    [self |-> s, ret |-> [op |-> op, err |-> err, val |-> None, info |-> info]]

Return(s, op, val, info) ==
    [self |-> s, ret |-> [op |-> op, err |-> NoError, val |-> Some(val), info |-> info]]

----------------------------------------------------------------------------
(* structure_df *)

cols_needed == <<age_col, year_col, actual_col, expose_col>>

\* faulty variant: stops at the first missing column
missing_cols_first(d) ==
    LET all == SelectSeq(cols_needed, LAMBDA c : ~HasCol(d, c))
    IN  IF all = <<>> THEN <<>> ELSE <<all[1]>>

missing_cols(d) == SelectSeq(cols_needed, LAMBDA c : ~HasCol(d, c))

\* faulty variant: the last row of a key overwrites the earlier ones
GroupBySum_last(d) ==
    LET keys  == SortPairs({<<d.rows[i][age_col], d.rows[i][year_col]>> :
                               i \in DOMAIN d.rows})
        grp(k) == SelectSeq(d.rows,
                      LAMBDA r : r[age_col] = k[1] /\ r[year_col] = k[2])
    IN  DataFrame(cols_needed,
            [j \in DOMAIN keys |-> Restrict(Last(grp(keys[j])), Range(cols_needed))])

\* df.groupby([age_col, year_col])[[actual_col, expose_col]].sum().reset_index()
GroupBySum(d) ==
    LET keys  == SortPairs({<<d.rows[i][age_col], d.rows[i][year_col]>> :
                               i \in DOMAIN d.rows})
        grp(k) == SelectSeq(d.rows,
                      LAMBDA r : r[age_col] = k[1] /\ r[year_col] = k[2])
        tot(k, c) == LET g == grp(k) IN SumSeq([i \in DOMAIN g |-> g[i][c]])
    IN  DataFrame(cols_needed,
            [j \in DOMAIN keys |->
                (age_col :> keys[j][1]) @@ (year_col :> keys[j][2]) @@
                (actual_col :> tot(keys[j], actual_col)) @@
                (expose_col :> tot(keys[j], expose_col))])

\* faulty variant: the plain ratio, without the test for a zero actual
RawRate_ratio(actual, exposure) == FDiv(Float(actual), Float(exposure))

\* np.where(actual == 0, 0, actual / exposure)
RawRate(actual, exposure) ==
    IF actual = 0 THEN Float(0) ELSE FDiv(Float(actual), Float(exposure))

\* Series.clip(upper=1)
ClipUpper(q) == IF FGt(q, Float(1)) THEN Float(1) ELSE q

\* faulty variant: counts after the clip
CountOver1_clipped(qs) == Len(SelectSeq(qs, LAMBDA q : FGt(ClipUpper(q), Float(1))))

\* len(lc_df[lc_df['qx_raw'] > 1]), the number the log line reports
CountOver1(qs) == Len(SelectSeq(qs, LAMBDA q : FGt(q, Float(1))))

WithColumn(d, c, vals) ==
    DataFrame(IF HasCol(d, c) THEN d.columns ELSE Append(d.columns, c),
              [i \in DOMAIN d.rows |-> (c :> vals[i]) @@ d.rows[i]])

StructureSurface(d) ==
    LET g   == GroupBySum(d)
        raw == [i \in DOMAIN g.rows |->
                   RawRate(g.rows[i][actual_col], g.rows[i][expose_col])]
    IN  [surface |-> WithColumn(g, "qx_raw",
                        [i \in DOMAIN raw |-> ClipUpper(raw[i])]),
         raw     |-> raw,
         capped  |-> CountOver1(raw)]

LeeCarter_structure_df(s, d) ==
    IF missing_cols(d) # <<>>
    THEN Raise(s, "structure_df", MissingColumnsError, missing_cols(d))
    ELSE LET r == StructureSurface(d)
         IN  Return([s EXCEPT !.lc_df = Some(r.surface)], "structure_df",
                    r.surface, [capped |-> r.capped, raw |-> r.raw])

CBD_structure_df(s, d) ==
    IF missing_cols(d) # <<>>
    THEN Raise(s, "structure_df", MissingColumnsError, missing_cols(d))
    ELSE LET r == StructureSurface(d)
         IN  Return([s EXCEPT !.cbd_df = Some(r.surface)], "structure_df",
                    r.surface, [capped |-> r.capped, raw |-> r.raw])

----------------------------------------------------------------------------
(* numpy log and exp, in units of ln 2 *)

RECURSIVE Log2(_)
Log2(n) == IF n <= 1 THEN 0 ELSE 1 + Log2(n \div 2)

IsPow2(n) == n >= 1 /\ 2 ^ Log2(n) = n

\* the floats whose logarithm the model represents exactly
InLogDomain(q) ==
    \/ q.d = 0
    \/ q.n <= 0
    \/ q.d = 1 /\ IsPow2(q.n)
    \/ q.n = 1 /\ IsPow2(q.d)

\* np.log: log(0) = -inf, log(negative) = NaN, log(NaN) = NaN; a warning at most
FLog(q) ==
    IF IsNaN(q) THEN NaN
    ELSE IF q = PosInf THEN PosInf
    ELSE IF q.n < 0 THEN NaN
    ELSE IF q.n = 0 THEN NegInf
    ELSE IF q.d = 1 THEN Float(Log2(q.n))
    ELSE Float(-Log2(q.d))

\* np.exp: exp(-inf) = 0, exp(inf) = inf, exp(NaN) = NaN
FExp(x) ==
    IF IsNaN(x) THEN NaN
    ELSE IF x = NegInf THEN Float(0)
    ELSE IF x = PosInf THEN PosInf
    ELSE [exp |-> x]

----------------------------------------------------------------------------
(* pandas pivot and merge *)

KeyError == "KeyError"

DuplicateEntriesError == "ValueError: Index contains duplicate entries, cannot reshape"

NaNToIntegerError == "ValueError: cannot convert float NaN to integer"

MergeError == "MergeError: Passing 'suffixes' which cause duplicate columns"

AttributeError == "AttributeError: 'NoneType' object has no attribute"

\* the error DataFrame.pivot(index, columns, values) raises on d, if any
PivotError(d, index, columns, values) ==
    IF \E c \in {index, columns, values} : ~HasCol(d, c) THEN KeyError
    ELSE IF \E i, j \in DOMAIN d.rows :
                i # j /\ d.rows[i][index] = d.rows[j][index]
                      /\ d.rows[i][columns] = d.rows[j][columns]
         THEN DuplicateEntriesError
    ELSE NoError

\* DataFrame.pivot: a grid over the sorted index and column values that occur,
\* NaN in the cells no row fills
Pivot(d, index, columns, values) ==
    LET I == {d.rows[i][index] : i \in DOMAIN d.rows}
        C == {d.rows[i][columns] : i \in DOMAIN d.rows}
        at(y, a) == {i \in DOMAIN d.rows :
                        d.rows[i][index] = y /\ d.rows[i][columns] = a}
    IN  [index   |-> SortInts(I),
         columns |-> SortInts(C),
         cell    |-> [y \in I |-> [a \in C |->
                        IF at(y, a) = {} THEN NaN
                        ELSE d.rows[CHOOSE i \in at(y, a) : TRUE][values]]]]

GridMap(g, F(_, _)) ==
    [g EXCEPT !.cell = [y \in DOMAIN g.cell |-> [a \in DOMAIN g.cell[y] |-> F(y, a)]]]

\* one column of a grid down the index (axis=0), one row along the columns (axis=1)
DownIndex(g, a) == [i \in DOMAIN g.index |-> g.cell[g.index[i]][a]]

AlongColumns(g, y) == [j \in DOMAIN g.columns |-> g.cell[y][g.columns[j]]]

\* grid.reset_index().melt(id_vars=index, var_name=columns, value_name=value)
Melt(g, index, columns, value) ==
    LET n == Len(g.index)
        m == Len(g.columns)
    IN  DataFrame(<<index, columns, value>>,
            [k \in 1..(n * m) |->
                LET a == g.columns[((k - 1) \div n) + 1]
                    y == g.index[((k - 1) % n) + 1]
                IN  (index :> y) @@ (columns :> a) @@ (value :> g.cell[y][a])])

\* column names of pd.merge(left, right, on=on, suffixes=suffixes): a name both
\* frames hold outside the keys gets the suffix of its side
MergedName(c, other, on, suffix) ==
    IF c \notin Range(on) /\ HasCol(other, c) THEN c \o suffix ELSE c

MergeColumns(left, right, on, suffixes) ==
    [i \in DOMAIN left.columns |->
        MergedName(left.columns[i], right, on, suffixes[1])]
    \o
    LET rest == SelectSeq(right.columns, LAMBDA c : c \notin Range(on))
    IN  [i \in DOMAIN rest |-> MergedName(rest[i], left, on, suffixes[2])]

HasDuplicates(cols) == \E i, j \in DOMAIN cols : i # j /\ cols[i] = cols[j]

MergeErrorOf(left, right, on, suffixes) ==
    IF \E c \in Range(on) : ~HasCol(left, c) \/ ~HasCol(right, c) THEN KeyError
    ELSE IF HasDuplicates(MergeColumns(left, right, on, suffixes)) THEN MergeError
    ELSE NoError

RECURSIVE Flatten(_)
Flatten(ss) == IF ss = <<>> THEN <<>> ELSE Head(ss) \o Flatten(Tail(ss))

\* faulty variant: a left row without a match is left out
MergeLeft_inner(left, right, on, suffixes) ==
    LET rest == SelectSeq(right.columns, LAMBDA c : c \notin Range(on))
        lrow(r) == [c \in {MergedName(x, right, on, suffixes[1]) :
                              x \in Range(left.columns)} |->
                       r[CHOOSE x \in Range(left.columns) :
                             MergedName(x, right, on, suffixes[1]) = c]]
        rrow(r) == [c \in {MergedName(x, left, on, suffixes[2]) : x \in Range(rest)} |->
                       r[CHOOSE x \in Range(rest) :
                             MergedName(x, left, on, suffixes[2]) = c]]
        nrow    == [c \in {MergedName(x, left, on, suffixes[2]) : x \in Range(rest)} |->
                       NaN]
        hits(r) == SelectSeq(right.rows, LAMBDA q : \A c \in Range(on) : q[c] = r[c])
        out(r)  == IF hits(r) = <<>> THEN <<>>
                   ELSE [k \in DOMAIN hits(r) |-> lrow(r) @@ rrow(hits(r)[k])]
    IN  DataFrame(MergeColumns(left, right, on, suffixes),
                  Flatten([i \in DOMAIN left.rows |-> out(left.rows[i])]))

\* pd.merge(left, right, on=on, how="left", suffixes=suffixes): every left row in
\* order, once per right row with the same key, once with NaN when there is none
MergeLeft(left, right, on, suffixes) ==
    LET rest == SelectSeq(right.columns, LAMBDA c : c \notin Range(on))
        lrow(r) == [c \in {MergedName(x, right, on, suffixes[1]) :
                              x \in Range(left.columns)} |->
                       r[CHOOSE x \in Range(left.columns) :
                             MergedName(x, right, on, suffixes[1]) = c]]
        rrow(r) == [c \in {MergedName(x, left, on, suffixes[2]) : x \in Range(rest)} |->
                       r[CHOOSE x \in Range(rest) :
                             MergedName(x, left, on, suffixes[2]) = c]]
        nrow    == [c \in {MergedName(x, left, on, suffixes[2]) : x \in Range(rest)} |->
                       NaN]
        hits(r) == SelectSeq(right.rows, LAMBDA q : \A c \in Range(on) : q[c] = r[c])
        out(r)  == IF hits(r) = <<>> THEN <<lrow(r) @@ nrow>>
                   ELSE [k \in DOMAIN hits(r) |-> lrow(r) @@ rrow(hits(r)[k])]
    IN  DataFrame(MergeColumns(left, right, on, suffixes),
                  Flatten([i \in DOMAIN left.rows |-> out(left.rows[i])]))

----------------------------------------------------------------------------
(* LeeCarter.fit *)

MissingAgeYearError == "ValueError: age and year columns are required"

\* a Series: the index in order and the value at each index entry
Series(index, val) == [index |-> index, val |-> val]

\* faulty variant: the age effect is the log rate of the first year
LeeCarter_a_x_first(log_qx) ==
    Series(log_qx.columns,
           [a \in Range(log_qx.columns) |-> DownIndex(log_qx, a)[1]])

LeeCarter_a_x(log_qx) ==
    Series(log_qx.columns,
           [a \in Range(log_qx.columns) |-> FMean(DownIndex(log_qx, a))])

LeeCarter_k_t(log_qx, a_x) ==
    LET dev == GridMap(log_qx, LAMBDA y, a : FSub(log_qx.cell[y][a], a_x.val[a]))
    IN  Series(log_qx.index,
               [y \in Range(log_qx.index) |-> FSum(AlongColumns(dev, y))])

\* faulty variant: the denominator is the number of years
LeeCarter_b_x_years(log_qx, a_x, k_t) ==
    LET e1 == GridMap(log_qx, LAMBDA y, a :
                  FMul(FSub(log_qx.cell[y][a], a_x.val[a]), k_t.val[y]))
        e2 == [a \in Range(log_qx.columns) |-> FSum(DownIndex(e1, a))]
        e4 == Float(Len(k_t.index))
    IN  Series(log_qx.columns, [a \in Range(log_qx.columns) |-> FDiv(e2[a], e4)])

LeeCarter_b_x(log_qx, a_x, k_t) ==
    LET e1 == GridMap(log_qx, LAMBDA y, a :
                  FMul(FSub(log_qx.cell[y][a], a_x.val[a]), k_t.val[y]))
        e2 == [a \in Range(log_qx.columns) |-> FSum(DownIndex(e1, a))]
        e4 == FSum([i \in DOMAIN k_t.index |->
                       FMul(k_t.val[k_t.index[i]], k_t.val[k_t.index[i]])])
    IN  Series(log_qx.columns, [a \in Range(log_qx.columns) |-> FDiv(e2[a], e4)])

\* exp(a_x + outer(b_x, k)) over the years of index, one row per year
LeeCarter_qx(a_x, b_x, index, k) ==
    [index   |-> index,
     columns |-> a_x.index,
     cell    |-> [y \in Range(index) |-> [a \in Range(a_x.index) |->
                    FExp(FAdd(a_x.val[a], FMul(b_x.val[a], k[y])))]]]

\* the decomposition of the surface d: everything fit computes between the
\* pivot and the merge
LeeCarter_decompose(d) ==
    LET crude_pivot == Pivot(d, year_col, age_col, "qx_raw")
        log_qx  == GridMap(crude_pivot, LAMBDA y, a : FLog(crude_pivot.cell[y][a]))
        a_x     == LeeCarter_a_x(log_qx)
        k_t     == LeeCarter_k_t(log_qx, a_x)
        b_x     == LeeCarter_b_x(log_qx, a_x, k_t)
    IN  [a_x     |-> a_x,
         k_t     |-> k_t,
         b_x     |-> b_x,
         b_x_k_t |-> GridMap(crude_pivot, LAMBDA y, a : FMul(b_x.val[a], k_t.val[y])),
         qx_lc   |-> LeeCarter_qx(a_x, b_x, crude_pivot.index, k_t.val)]

\* faulty variant: tests the year column only
LacksAgeYear_year(d) == ~HasCol(d, year_col)

\* if self.year_col not in lc_df.columns or self.age_col not in lc_df.columns
LacksAgeYear(d) == ~HasCol(d, year_col) \/ ~HasCol(d, age_col)

\* faulty variant: a time index already fitted is kept, not replaced
LeeCarter_fit_keep(s, d) ==
    IF LacksAgeYear(d)
    THEN Raise(s, "fit", MissingAgeYearError, None)
    ELSE IF PivotError(d, year_col, age_col, "qx_raw") # NoError
    THEN Raise(s, "fit", PivotError(d, year_col, age_col, "qx_raw"), None)
    ELSE IF d.rows = <<>>
    THEN Raise(s, "fit", NaNToIntegerError, None)
    ELSE
    LET m      == LeeCarter_decompose(d)
        melted == Melt(m.qx_lc, year_col, age_col, "qx_lc")
        on     == <<year_col, age_col>>
        sfx    == <<"_x", "_y">>
        fitted == [s EXCEPT !.a_x = Some(m.a_x),
                            !.k_t = IF s.k_t = None THEN Some(m.k_t) ELSE s.k_t,
                            !.b_x = Some(m.b_x), !.b_x_k_t = Some(m.b_x_k_t)]
    IN  IF MergeErrorOf(d, melted, on, sfx) # NoError
        THEN Raise(fitted, "fit", MergeErrorOf(d, melted, on, sfx), None)
        ELSE LET lc_df == MergeLeft(d, melted, on, sfx)
             IN  Return([fitted EXCEPT !.lc_df = Some(lc_df)], "fit", lc_df, None)

LeeCarter_fit(s, d) ==
    IF LacksAgeYear(d)
    THEN Raise(s, "fit", MissingAgeYearError, None)
    ELSE IF PivotError(d, year_col, age_col, "qx_raw") # NoError
    THEN Raise(s, "fit", PivotError(d, year_col, age_col, "qx_raw"), None)
    ELSE IF d.rows = <<>>
    THEN Raise(s, "fit", NaNToIntegerError, None)
    ELSE
    LET m      == LeeCarter_decompose(d)
        melted == Melt(m.qx_lc, year_col, age_col, "qx_lc")
        on     == <<year_col, age_col>>
        sfx    == <<"_x", "_y">>
        fitted == [s EXCEPT !.a_x = Some(m.a_x), !.k_t = Some(m.k_t),
                            !.b_x = Some(m.b_x), !.b_x_k_t = Some(m.b_x_k_t)]
    IN  IF MergeErrorOf(d, melted, on, sfx) # NoError
        THEN Raise(fitted, "fit", MergeErrorOf(d, melted, on, sfx), None)
        ELSE LET lc_df == MergeLeft(d, melted, on, sfx)
             IN  Return([fitted EXCEPT !.lc_df = Some(lc_df)], "fit", lc_df, None)

----------------------------------------------------------------------------
(* LeeCarter.forecast and LeeCarter.map *)

\* list(range(last + 1, last + years + 1))
YearCols(last, years) == [h \in 1..years |-> last + h]

\* faulty variant: divides by the number of steps between the years
Drift_steps(k) ==
    FDiv(FSub(k.val[Last(k.index)], k.val[k.index[1]]), Float(Len(k.index) - 1))

\* (k.iloc[-1] - k.iloc[0]) / len(k)
Drift(k) ==
    FDiv(FSub(k.val[Last(k.index)], k.val[k.index[1]]), Float(Len(k.index)))

\* k.iloc[-1] + mu * np.arange(1, years + 1) + rng.normal(scale=0, size=years)
\* faulty variant: the steps are counted back from the end of the horizon
RandomWalk_back(k, years) ==
    [h \in 1..years |->
        FAdd(FAdd(k.val[Last(k.index)], FMul(Drift(k), Float(years - h + 1))), Float(0))]

RandomWalk(k, years) ==
    [h \in 1..years |->
        FAdd(FAdd(k.val[Last(k.index)], FMul(Drift(k), Float(h))), Float(0))]

\* if self.lc_df is None / if self.cbd_df is None / if self.model is None
NotFitted(stored) == stored = None

\* faulty variant: the forecast is appended to the fitted time index
LeeCarter_forecast_extend(s, years) ==
    IF NotFitted(s.lc_df)
    THEN Raise(s, "forecast", NotFittedError, None)
    ELSE IF s.k_t = None
    THEN Raise(s, "forecast", AttributeError, None)
    ELSE
    LET k_t       == Get(s.k_t)
        year_cols == YearCols(Last(k_t.index), years)
        k_t_i     == RandomWalk(k_t, years)
        lcf_df    == LeeCarter_qx(Get(s.a_x), Get(s.b_x), year_cols,
                         [y \in Range(year_cols) |->
                             k_t_i[y - Last(k_t.index)]])
        longer    == Series(k_t.index \o year_cols,
                         [y \in Range(k_t.index) \cup Range(year_cols) |->
                             IF y \in Range(k_t.index) THEN k_t.val[y]
                             ELSE k_t_i[y - Last(k_t.index)]])
    IN  Return([s EXCEPT !.k_t_i = Some(k_t_i), !.k_t = Some(longer)],
               "forecast", lcf_df, None)

\* faulty variant: the forecast index is reset ahead of the test
LeeCarter_forecast_reset(s, years) ==
    IF NotFitted(s.lc_df)
    THEN Raise([s EXCEPT !.k_t_i = Some(<<>>)], "forecast", NotFittedError, None)
    ELSE IF s.k_t = None
    THEN Raise(s, "forecast", AttributeError, None)
    ELSE
    LET k_t       == Get(s.k_t)
        year_cols == YearCols(Last(k_t.index), years)
        k_t_i     == RandomWalk(k_t, years)
        lcf_df    == LeeCarter_qx(Get(s.a_x), Get(s.b_x), year_cols,
                         [y \in Range(year_cols) |->
                             k_t_i[y - Last(k_t.index)]])
    IN  Return([s EXCEPT !.k_t_i = Some(k_t_i)], "forecast", lcf_df, None)

LeeCarter_forecast(s, years) ==
    IF NotFitted(s.lc_df)
    THEN Raise(s, "forecast", NotFittedError, None)
    ELSE IF s.k_t = None
    THEN Raise(s, "forecast", AttributeError, None)
    ELSE
    LET k_t       == Get(s.k_t)
        year_cols == YearCols(Last(k_t.index), years)
        k_t_i     == RandomWalk(k_t, years)
        lcf_df    == LeeCarter_qx(Get(s.a_x), Get(s.b_x), year_cols,
                         [y \in Range(year_cols) |->
                             k_t_i[y - Last(k_t.index)]])
    IN  Return([s EXCEPT !.k_t_i = Some(k_t_i)], "forecast", lcf_df, None)

NotUniqueError == "ValueError: The column label is not unique"

\* DataFrame.rename(columns={from[i]: to[i]})
Rename(d, from, to) ==
    LET new(c) == IF \E i \in DOMAIN from : from[i] = c
                  THEN to[CHOOSE i \in DOMAIN from : from[i] = c] ELSE c
    IN  DataFrame([i \in DOMAIN d.columns |-> new(d.columns[i])],
                  [i \in DOMAIN d.rows |->
                      [c \in {new(x) : x \in Range(d.columns)} |->
                          d.rows[i][CHOOSE x \in Range(d.columns) : new(x) = c]]])

\* d[cols]
Select(d, cols) ==
    DataFrame(cols, [i \in DOMAIN d.rows |-> Restrict(d.rows[i], Range(cols))])

\* faulty variant: the joined dataset is stored as the surface
MapRates_store(s, stored, d, age_arg, year_arg, rate) ==
    LET age  == IF age_arg = None THEN age_col ELSE Get(age_arg)
        year == IF year_arg = None THEN year_col ELSE Get(year_arg)
        on   == <<age, year>>
        sfx  == <<"_old", "">>
    IN  IF NotFitted(stored)
        THEN Raise(s, "map", NotFittedError, Some(d))
        ELSE IF ~HasCol(Get(stored), year) \/ ~HasCol(Get(stored), age)
        THEN Raise(s, "map", MissingAgeYearError, Some(d))
        ELSE IF HasDuplicates(Rename(Get(stored), <<age_col, year_col>>, on).columns)
        THEN Raise(s, "map", NotUniqueError, Some(d))
        ELSE IF ~HasCol(Rename(Get(stored), <<age_col, year_col>>, on), rate)
        THEN Raise(s, "map", KeyError, Some(d))
        ELSE
        LET right == Select(Rename(Get(stored), <<age_col, year_col>>, on),
                            <<age, year, rate>>)
        IN  IF MergeErrorOf(d, right, on, sfx) # NoError
            THEN Raise(s, "map", MergeErrorOf(d, right, on, sfx), Some(d))
            ELSE LET merged == MergeLeft(d, right, on, sfx)
                 IN  Return(IF s.cls = "LeeCarter"
                            THEN [s EXCEPT !.lc_df = Some(merged)]
                            ELSE [s EXCEPT !.cbd_df = Some(merged)], "map",
                         IF HasCol(merged, rate \o "_old")
                         THEN Drop(merged, {rate \o "_old"}) ELSE merged,
                         Some(d))

\* the shared body of LeeCarter.map and CBD.map; rate is "qx_lc" or "qx_cbd".
\* info is the caller's dataset as the call leaves it: rename, the column
\* selection and merge return new frames, and drop(inplace=True) acts on the
\* frame merge returned
MapRates(s, stored, d, age_arg, year_arg, rate) ==
    LET age  == IF age_arg = None THEN age_col ELSE Get(age_arg)
        year == IF year_arg = None THEN year_col ELSE Get(year_arg)
        on   == <<age, year>>
        sfx  == <<"_old", "">>
    IN  IF NotFitted(stored)
        THEN Raise(s, "map", NotFittedError, Some(d))
        ELSE IF ~HasCol(Get(stored), year) \/ ~HasCol(Get(stored), age)
        THEN Raise(s, "map", MissingAgeYearError, Some(d))
        ELSE IF HasDuplicates(Rename(Get(stored), <<age_col, year_col>>, on).columns)
        THEN Raise(s, "map", NotUniqueError, Some(d))
        ELSE IF ~HasCol(Rename(Get(stored), <<age_col, year_col>>, on), rate)
        THEN Raise(s, "map", KeyError, Some(d))
        ELSE
        LET right == Select(Rename(Get(stored), <<age_col, year_col>>, on),
                            <<age, year, rate>>)
        IN  IF MergeErrorOf(d, right, on, sfx) # NoError
            THEN Raise(s, "map", MergeErrorOf(d, right, on, sfx), Some(d))
            ELSE LET merged == MergeLeft(d, right, on, sfx)
                 IN  Return(s, "map",
                         IF HasCol(merged, rate \o "_old")
                         THEN Drop(merged, {rate \o "_old"}) ELSE merged,
                         Some(d))

LeeCarter_map(s, d, age_arg, year_arg) ==
    MapRates(s, s.lc_df, d, age_arg, year_arg, "qx_lc")

----------------------------------------------------------------------------
(* CBD *)

\* CBD._logit: np.log(a / (1 - a))
CBD_logit(a) == FLog(FDiv(a, FSub(Float(1), a)))

InLogitDomain(q) == InLogDomain(FDiv(q, FSub(Float(1), q)))

\* np.exp(x) / (1 + np.exp(x)): inf/inf = NaN at x = inf, 0 at x = -inf
FExpit(x) ==
    IF IsNaN(x) \/ x = PosInf THEN NaN
    ELSE IF x = NegInf THEN Float(0)
    ELSE [expit |-> x]

CBD_k_t_1(qx_logit) ==
    Series(qx_logit.index,
           [y \in Range(qx_logit.index) |-> FMean(AlongColumns(qx_logit, y))])

\* ages - ages.to_series().mean(), by position
CBD_age_diff(ages) ==
    LET age_mean == FMean([j \in DOMAIN ages |-> Float(ages[j])])
    IN  [j \in DOMAIN ages |-> FSub(Float(ages[j]), age_mean)]

CBD_k_t_2(qx_logit, age_diff) ==
    LET e1(y) == FSum([j \in DOMAIN age_diff |->
                     FMul(age_diff[j], qx_logit.cell[y][qx_logit.columns[j]])])
        e2    == FSum([j \in DOMAIN age_diff |-> FMul(age_diff[j], age_diff[j])])
    IN  Series(qx_logit.index,
               [y \in Range(qx_logit.index) |-> FDiv(e1(y), e2)])

\* expit(k_1 + age_diff * k_2) over the years of index, one row per year
CBD_qx(ages, age_diff, index, k_1, k_2) ==
    [index   |-> index,
     columns |-> ages,
     cell    |-> [y \in Range(index) |-> [a \in Range(ages) |->
                    LET j == CHOOSE i \in DOMAIN ages : ages[i] = a
                    IN  FExpit(FAdd(k_1[y], FMul(age_diff[j], k_2[y])))]]]

CBD_decompose(d) ==
    LET crude_pivot == Pivot(d, year_col, age_col, "qx_raw")
        ages     == crude_pivot.columns
        qx_logit == GridMap(crude_pivot, LAMBDA y, a : CBD_logit(crude_pivot.cell[y][a]))
        k_t_1    == CBD_k_t_1(qx_logit)
        age_diff == CBD_age_diff(ages)
        k_t_2    == CBD_k_t_2(qx_logit, age_diff)
    IN  [ages     |-> ages,
         k_t_1    |-> k_t_1,
         age_diff |-> age_diff,
         k_t_2    |-> k_t_2,
         qx_cbd   |-> CBD_qx(ages, age_diff, crude_pivot.index, k_t_1.val, k_t_2.val)]

\* faulty variant: the time indices are cleared ahead of the pivot
CBD_fit_clear(s, d) ==
    IF PivotError(d, year_col, age_col, "qx_raw") # NoError
    THEN Raise([s EXCEPT !.k_t_1 = None, !.k_t_2 = None], "fit",
               PivotError(d, year_col, age_col, "qx_raw"), None)
    ELSE
    LET m      == CBD_decompose(d)
        melted == Melt(m.qx_cbd, year_col, age_col, "qx_cbd")
        on     == <<year_col, age_col>>
        sfx    == <<"_x", "_y">>
        fitted == [s EXCEPT !.ages = Some(m.ages), !.k_t_1 = Some(m.k_t_1),
                            !.age_diff = Some(m.age_diff), !.k_t_2 = Some(m.k_t_2)]
    IN  IF d.rows = <<>>
        THEN Raise([s EXCEPT !.ages = Some(m.ages)], "fit", NaNToIntegerError, None)
        ELSE IF MergeErrorOf(d, melted, on, sfx) # NoError
        THEN Raise(fitted, "fit", MergeErrorOf(d, melted, on, sfx), None)
        ELSE LET cbd_df == MergeLeft(d, melted, on, sfx)
             IN  Return([fitted EXCEPT !.cbd_df = Some(cbd_df)], "fit", cbd_df, None)

CBD_fit(s, d) ==
    IF PivotError(d, year_col, age_col, "qx_raw") # NoError
    THEN Raise(s, "fit", PivotError(d, year_col, age_col, "qx_raw"), None)
    ELSE
    LET m      == CBD_decompose(d)
        melted == Melt(m.qx_cbd, year_col, age_col, "qx_cbd")
        on     == <<year_col, age_col>>
        sfx    == <<"_x", "_y">>
        fitted == [s EXCEPT !.ages = Some(m.ages), !.k_t_1 = Some(m.k_t_1),
                            !.age_diff = Some(m.age_diff), !.k_t_2 = Some(m.k_t_2)]
    IN  IF d.rows = <<>>
        THEN Raise([s EXCEPT !.ages = Some(m.ages)], "fit", NaNToIntegerError, None)
        ELSE IF MergeErrorOf(d, melted, on, sfx) # NoError
        THEN Raise(fitted, "fit", MergeErrorOf(d, melted, on, sfx), None)
        ELSE LET cbd_df == MergeLeft(d, melted, on, sfx)
             IN  Return([fitted EXCEPT !.cbd_df = Some(cbd_df)], "fit", cbd_df, None)

\* faulty variant: the forecast years start at the last fitted year
CBD_forecast_from_last(s, years) ==
    IF NotFitted(s.cbd_df)
    THEN Raise(s, "forecast", NotFittedError, None)
    ELSE IF s.k_t_1 = None
    THEN Raise(s, "forecast", AttributeError, None)
    ELSE
    LET k_t_1     == Get(s.k_t_1)
        k_t_2     == Get(s.k_t_2)
        last      == Last(k_t_1.index)
        year_cols == YearCols(last - 1, years)
        k_1_f     == Series(year_cols, [y \in Range(year_cols) |->
                                           RandomWalk(k_t_1, years)[y - last + 1]])
        k_2_f     == Series(year_cols, [y \in Range(year_cols) |->
                                           RandomWalk(k_t_2, years)[y - last + 1]])
        cbdf_df   == CBD_qx(Get(s.ages), Get(s.age_diff), year_cols,
                            k_1_f.val, k_2_f.val)
    IN  Return([s EXCEPT !.k_1_f = Some(k_1_f), !.k_2_f = Some(k_2_f)],
               "forecast", cbdf_df, None)

CBD_forecast(s, years) ==
    IF NotFitted(s.cbd_df)
    THEN Raise(s, "forecast", NotFittedError, None)
    ELSE IF s.k_t_1 = None
    THEN Raise(s, "forecast", AttributeError, None)
    ELSE
    LET k_t_1     == Get(s.k_t_1)
        k_t_2     == Get(s.k_t_2)
        last      == Last(k_t_1.index)
        year_cols == YearCols(last, years)
        k_1_f     == Series(year_cols, [y \in Range(year_cols) |->
                                           RandomWalk(k_t_1, years)[y - last]])
        k_2_f     == Series(year_cols, [y \in Range(year_cols) |->
                                           RandomWalk(k_t_2, years)[y - last]])
        cbdf_df   == CBD_qx(Get(s.ages), Get(s.age_diff), year_cols,
                            k_1_f.val, k_2_f.val)
    IN  Return([s EXCEPT !.k_1_f = Some(k_1_f), !.k_2_f = Some(k_2_f)],
               "forecast", cbdf_df, None)

CBD_map(s, d, age_arg, year_arg) ==
    MapRates(s, s.cbd_df, d, age_arg, year_arg, "qx_cbd")

----------------------------------------------------------------------------
(* GLM.  The feature matrix is its column names, the target its name; a    *)
(* mapping is the sequence of its items <<key, type>> in dict order.  The  *)
(* estimate statsmodels returns is an input of fit_model: any coefficient  *)
(* per parameter name.                                                     *)

\* faulty variant: the intercept column is added last
GLM_init_append(X, y, weights, r_style, mapping) ==
    [cls |-> "GLM", X |-> X \o <<"const">>, y |-> y, weights |-> weights,
     model |-> None, r_style |-> r_style, mapping |-> mapping]

\* sm.add_constant(X): the intercept column first
GLM_init(X, y, weights, r_style, mapping) ==
    [cls |-> "GLM", X |-> <<"const">> \o X, y |-> y, weights |-> weights,
     model |-> None, r_style |-> r_style, mapping |-> mapping]

RECURSIVE Join(_, _)
Join(ss, sep) ==
    IF ss = <<>> THEN ""
    ELSE IF Len(ss) = 1 THEN ss[1]
    ELSE ss[1] \o sep \o Join(Tail(ss), sep)

\* faulty variant: the terms stay in mapping order, cat_pass keys among the others
GLM_terms_unsorted(s) ==
    IF s.mapping # None /\ Get(s.mapping) # <<>>
    THEN LET m == Get(s.mapping)
         IN  [i \in DOMAIN m |->
                 IF m[i][2] = "cat_pass" THEN "C(" \o m[i][1] \o ")" ELSE m[i][1]]
    ELSE s.X

\* the terms right of "~": <<>> stands for the intercept-only "1"
GLM_terms(s) ==
    IF s.mapping # None /\ Get(s.mapping) # <<>>
    THEN LET m == Get(s.mapping)
             other_keys    == SelectSeq(m, LAMBDA kv : kv[2] # "cat_pass")
             cat_pass_keys == SelectSeq(m, LAMBDA kv : kv[2] = "cat_pass")
         IN  [i \in DOMAIN other_keys |-> other_keys[i][1]] \o
             [i \in DOMAIN cat_pass_keys |-> "C(" \o cat_pass_keys[i][1] \o ")"]
    ELSE s.X

GLM_get_formula(s) ==
    IF GLM_terms(s) = <<>> THEN s.y \o " ~ 1"
    ELSE s.y \o " ~ " \o Join(GLM_terms(s), " + ")

\* the family the fit runs with
GLM_family(s, family) ==
    IF s.r_style
    THEN (IF family = None THEN "Binomial" ELSE Get(family))
    ELSE "Binomial"

\* the names of the parameters of the fitted model, the intercept first
GLM_param_names(s) ==
    IF s.r_style THEN <<"Intercept">> \o GLM_terms(s) ELSE s.X

GLM_fit_model(s, family, coef) ==
    LET model == [family  |-> GLM_family(s, family),
                  formula |-> IF s.r_style THEN Some(GLM_get_formula(s)) ELSE None,
                  params  |-> Series(GLM_param_names(s), coef)]
    IN  Return([s EXCEPT !.model = Some(model)], "fit_model", model, None)

\* coef_df.sort_values("coefficient", ascending=False): order is a descending
\* arrangement of the positions of coef_df (ties in any order)
IsDescending(names, coef, order) ==
    /\ order \in [DOMAIN names -> DOMAIN names]
    /\ \A i, j \in DOMAIN names : i # j => order[i] # order[j]
    /\ \A i, j \in DOMAIN names : i < j => coef[names[order[i]]] >= coef[names[order[j]]]

GLM_get_odds(s, display, order) ==
    IF NotFitted(s.model)
    THEN Raise(s, "get_odds", NotFittedError, None)
    ELSE
    LET params     == Get(s.model).params
        odds_ratio == Series(params.index,
                          [x \in Range(params.index) |-> FExp(Float(params.val[x]))])
        features   == Tail(params.index)
        coef_df    == [i \in DOMAIN features |->
                          [feature |-> features[order[i]],
                           coefficient |-> params.val[features[order[i]]]]]
    IN  IF display
        THEN Return(s, "get_odds", [figure |-> coef_df], None)
        ELSE Return(s, "get_odds", odds_ratio, None)

----------------------------------------------------------------------------
(* Datasets a caller can pass *)

Seqs(S, n) == UNION {[1..k -> S] : k \in 0..n}

Row(a, y, x, e) ==
    (age_col :> a) @@ (year_col :> y) @@ (actual_col :> x) @@ (expose_col :> e)

Ages == {50, 51}

Years == {2000, 2001}

StructRows ==
    {Row(a, y, x, e) : a \in Ages, y \in Years, x \in {-1, 0, 1, 2}, e \in {-1, 0, 1}}

StructDatasets == {DataFrame(cols_needed, rs) : rs \in Seqs(StructRows, MaxRows)}

----------------------------------------------------------------------------
(* The calls *)

NoCall == [op |-> "none", err |-> NoError, val |-> None, info |-> None]

Succeeded(r, op) == r.op = op /\ r.err = NoError

Failed(r, op) == r.op = op /\ r.err # NoError

Outcome(r, d, a) ==
    /\ self' = r.self
    /\ ret' = r.ret
    /\ df' = d
    /\ arg' = a
    /\ hist' = [structured |-> hist.structured \/ Succeeded(r.ret, "structure_df"),
                fitted     |-> hist.fitted \/ Succeeded(r.ret, "fit")
                                          \/ Succeeded(r.ret, "fit_model")]

----------------------------------------------------------------------------
(* SpecStructure: structure_df as a function of the caller's dataset.      *)
(* The dataset is drawn at the start, the one call is applied to it.       *)

InitStructure ==
    /\ self \in {LeeCarter_init, CBD_init}
    /\ df \in {Some(d) : d \in StructDatasets}
    /\ arg = <<>>
    /\ ret = NoCall
    /\ hist = [structured |-> FALSE, fitted |-> FALSE]

S_LeeCarter_structure_df ==
    /\ ret.op = "none"
    /\ self.cls = "LeeCarter"
    /\ Outcome(LeeCarter_structure_df(self, Get(df)), df, <<>>)

S_CBD_structure_df ==
    /\ ret.op = "none"
    /\ self.cls = "CBD"
    /\ Outcome(CBD_structure_df(self, Get(df)), df, <<>>)

NextStructure == S_LeeCarter_structure_df \/ S_CBD_structure_df

SpecStructure == InitStructure /\ [][NextStructure]_vars

----------------------------------------------------------------------------
(* Spec: one instance of one of the three classes and every sequence of    *)
(* calls on it.                                                            *)

\* the dataset with one row per key of f, in key order; f[k] = <<actual, exposure>>
Cells(f) ==
    LET keys == SortPairs(DOMAIN f)
    IN  DataFrame(cols_needed,
            [i \in DOMAIN keys |->
                Row(keys[i][1], keys[i][2], f[keys[i]][1], f[keys[i]][2])])

\* two complete 2 x 2 datasets with rates 1/u, 1/v, 1/w, then the first with a
\* cell missing, with one year only, with a zero actual, with a rate of 1
Family(u, v, w) ==
    LET full1 == (<<50, 2000>> :> <<1, u>>) @@ (<<50, 2001>> :> <<1, v>>) @@
                 (<<51, 2000>> :> <<1, u>>) @@ (<<51, 2001>> :> <<1, w>>)
        full2 == (<<50, 2000>> :> <<1, v>>) @@ (<<50, 2001>> :> <<1, u>>) @@
                 (<<51, 2000>> :> <<1, w>>) @@ (<<51, 2001>> :> <<1, u>>)
    IN  {Cells(full1), Cells(full2),
         Cells(Restrict(full1, DOMAIN full1 \ {<<51, 2001>>})),
         Cells(Restrict(full1, {<<50, 2000>>, <<51, 2000>>})),
         Cells((<<50, 2000>> :> <<0, u>>) @@ full1),
         Cells((<<51, 2001>> :> <<1, 1>>) @@ full1)}

\* the exposures keep the rates in the domain of the class's transform:
\* log(1/2^j) = -j for LeeCarter, logit(1/(2^j + 1)) = -j for CBD
LeeCarterDatasets == Family(2, 4, 8)

CBDDatasets == Family(3, 5, 9)

\* the same with configured columns missing
OneRow == DataFrame(cols_needed, <<Row(50, 2000, 1, 2)>>)

MissingDatasets == {Drop(OneRow, C) : C \in (SUBSET Range(cols_needed)) \ {{}}}

\* surfaces a caller can pass to fit besides the stored one (the value
\* structure_df or an earlier fit returned): one with a column missing, one
\* with a key twice
Doubled(d) == DataFrame(d.columns, d.rows \o d.rows)

OneCell == StructureSurface(OneRow).surface

BrokenSurfaces ==
    {Drop(OneCell, {c}) : c \in {age_col, year_col, "qx_raw"}} \cup {Doubled(OneCell)}

\* datasets a caller can pass to map
MapDatasets ==
    {DataFrame(<<age_col, year_col, "policy">>,
         <<(age_col :> 50) @@ (year_col :> 2000) @@ ("policy" :> 1),
           (age_col :> 51) @@ (year_col :> 2002) @@ ("policy" :> 2)>>),
     DataFrame(<<"age", "year">>, <<("age" :> 50) @@ ("year" :> 2000)>>)}

\* the age_col and year_col arguments of map
ColumnArgs == {<<None, None>>, <<Some("age"), Some("year")>>}

Mappings ==
    {None, Some(<<>>),
     Some(<<<<"feature1", "numeric">>, <<"feature2", "numeric">>,
            <<"feature3", "cat_pass">>>>)}

Families == {None, Some("Binomial"), Some("Poisson")}

\* estimates: all coefficients equal, falling or rising along the names
Estimates(names) ==
    {[x \in Range(names) |-> 0],
     [x \in Range(names) |-> CHOOSE i \in DOMAIN names : names[i] = x],
     [x \in Range(names) |-> -(CHOOSE i \in DOMAIN names : names[i] = x)]}

Init ==
    /\ self \in {LeeCarter_init, CBD_init} \cup
                {GLM_init(<<"feature1", "feature2", "feature3">>, "y", None, r, m) :
                     r \in BOOLEAN, m \in Mappings}
    /\ df = None
    /\ arg = <<>>
    /\ ret = NoCall
    /\ hist = [structured |-> FALSE, fitted |-> FALSE]

RatesOf(d) == {d.rows[i]["qx_raw"] : i \in DOMAIN d.rows}

Call_LeeCarter_structure_df ==
    /\ self.cls = "LeeCarter"
    /\ \E d \in LeeCarterDatasets \cup MissingDatasets :
           Outcome(LeeCarter_structure_df(self, d), Some(d), <<>>)

Call_LeeCarter_fit ==
    /\ self.cls = "LeeCarter"
    /\ \E d \in Range(self.lc_df) \cup BrokenSurfaces :
           /\ HasCol(d, "qx_raw") => \A q \in RatesOf(d) : InLogDomain(q)
           /\ Outcome(LeeCarter_fit(self, d), Some(d), <<>>)

Call_LeeCarter_forecast ==
    /\ self.cls = "LeeCarter"
    /\ \E years \in 0..MaxYears : Outcome(LeeCarter_forecast(self, years), None, <<years>>)

Call_LeeCarter_map ==
    /\ self.cls = "LeeCarter"
    /\ \E d \in MapDatasets, c \in ColumnArgs :
           Outcome(LeeCarter_map(self, d, c[1], c[2]), Some(d), c)

Call_CBD_structure_df ==
    /\ self.cls = "CBD"
    /\ \E d \in CBDDatasets \cup MissingDatasets :
           Outcome(CBD_structure_df(self, d), Some(d), <<>>)

Call_CBD_fit ==
    /\ self.cls = "CBD"
    /\ \E d \in Range(self.cbd_df) \cup BrokenSurfaces :
           /\ HasCol(d, "qx_raw") => \A q \in RatesOf(d) : InLogitDomain(q)
           /\ Outcome(CBD_fit(self, d), Some(d), <<>>)

Call_CBD_forecast ==
    /\ self.cls = "CBD"
    /\ \E years \in 0..MaxYears : Outcome(CBD_forecast(self, years), None, <<years>>)

Call_CBD_map ==
    /\ self.cls = "CBD"
    /\ \E d \in MapDatasets, c \in ColumnArgs :
           Outcome(CBD_map(self, d, c[1], c[2]), Some(d), c)

Call_GLM_fit_model ==
    /\ self.cls = "GLM"
    /\ \E family \in Families, coef \in Estimates(GLM_param_names(self)) :
           Outcome(GLM_fit_model(self, family, coef), None, <<family>>)

Call_GLM_get_odds ==
    /\ self.cls = "GLM"
    /\ \E display \in BOOLEAN :
           IF self.model = None
           THEN Outcome(GLM_get_odds(self, display, <<>>), None, <<display>>)
           ELSE LET p == Get(self.model).params
                IN  \E order \in [DOMAIN Tail(p.index) -> DOMAIN Tail(p.index)] :
                        /\ IsDescending(Tail(p.index), p.val, order)
                        /\ Outcome(GLM_get_odds(self, display, order), None, <<display>>)

Next ==
    \/ Call_LeeCarter_structure_df
    \/ Call_LeeCarter_fit
    \/ Call_LeeCarter_forecast
    \/ Call_LeeCarter_map
    \/ Call_CBD_structure_df
    \/ Call_CBD_fit
    \/ Call_CBD_forecast
    \/ Call_CBD_map
    \/ Call_GLM_fit_model
    \/ Call_GLM_get_odds

Spec == Init /\ [][Next]_vars

----------------------------------------------------------------------------
(* SpecUse: the use of a fitted instance.  The instance starts as          *)
(* structure_df and fit on one of the datasets leave it; the caller then   *)
(* forecasts and maps, in any order, any number of times.                  *)

\* the rate field fit adds and map joins
RateName(cls) == IF cls = "LeeCarter" THEN "qx_lc" ELSE "qx_cbd"

\* the columns a caller's dataset has besides age and year: one of its own, a
\* rate column of the model's name, a column ending in _old
ExtraColumns(rate) ==
    {<<"policy">>, <<"policy", rate>>, <<rate \o "_old">>, <<rate, rate \o "_old">>}

\* a key of the fitted surface and a key outside it
CallerKeys == {<<50, 2000>>, <<51, 2002>>}

\* row i of the caller's dataset: its own columns hold values of their own
CallerRow(i, key, extra) ==
    (age_col :> key[1]) @@ (year_col :> key[2]) @@
    [c \in Range(extra) |->
        IF c = "policy" THEN 100 + i ELSE [n |-> 9 + i, d |-> 10]]

CallerDatasets(rate) ==
    {DataFrame(<<age_col, year_col>> \o extra,
               [i \in DOMAIN keys |-> CallerRow(i, keys[i], extra)]) :
         extra \in ExtraColumns(rate), keys \in Seqs(CallerKeys, MaxRows)}

LeeCarter_fitted(d) ==
    LET s == LeeCarter_structure_df(LeeCarter_init, d)
    IN  LeeCarter_fit(s.self, Get(s.ret.val))

CBD_fitted(d) ==
    LET s == CBD_structure_df(CBD_init, d)
    IN  CBD_fit(s.self, Get(s.ret.val))

InitUse ==
    /\ \E f \in {LeeCarter_fitted(d) : d \in LeeCarterDatasets} \cup
                {CBD_fitted(d) : d \in CBDDatasets} :
           /\ self = f.self
           /\ ret = f.ret
           /\ df = Some(Drop(Get(f.ret.val), {RateName(f.self.cls)}))
    /\ arg = <<>>
    /\ hist = [structured |-> TRUE, fitted |-> TRUE]

U_LeeCarter_forecast ==
    /\ self.cls = "LeeCarter"
    /\ \E years \in 0..MaxYears : Outcome(LeeCarter_forecast(self, years), None, <<years>>)

U_LeeCarter_map ==
    /\ self.cls = "LeeCarter"
    /\ \/ \E d \in CallerDatasets("qx_lc") :
              Outcome(LeeCarter_map(self, d, None, None), Some(d), <<None, None>>)
       \/ \E d \in MapDatasets, c \in ColumnArgs :
              Outcome(LeeCarter_map(self, d, c[1], c[2]), Some(d), c)

U_CBD_forecast ==
    /\ self.cls = "CBD"
    /\ \E years \in 0..MaxYears : Outcome(CBD_forecast(self, years), None, <<years>>)

U_CBD_map ==
    /\ self.cls = "CBD"
    /\ \/ \E d \in CallerDatasets("qx_cbd") :
              Outcome(CBD_map(self, d, None, None), Some(d), <<None, None>>)
       \/ \E d \in MapDatasets, c \in ColumnArgs :
              Outcome(CBD_map(self, d, c[1], c[2]), Some(d), c)

NextUse == U_LeeCarter_forecast \/ U_LeeCarter_map \/ U_CBD_forecast \/ U_CBD_map

SpecUse == InitUse /\ [][NextUse]_vars

----------------------------------------------------------------------------
(* SpecFormula: get_formula as a function of the instance.  The mapping is *)
(* any dict over the feature names, in any insertion order.                *)

FeatureNames == {"feature1", "feature2", "feature3"}

FeatureTypes == {"numeric", "ordinal", "cat_pass"}

FormulaMappings ==
    {m \in Seqs(FeatureNames \X FeatureTypes, Cardinality(FeatureNames)) :
        \A i, j \in DOMAIN m : i # j => m[i][1] # m[j][1]}

\* the columns of the feature matrix the caller constructs the instance with
FeatureMatrices ==
    {<<"feature1", "feature2", "feature3">>, <<"feature2", "feature1">>, <<"feature3">>}

InitFormula ==
    /\ self \in {GLM_init(X, "y", None, r, m) :
                    X \in FeatureMatrices, r \in BOOLEAN,
                    m \in {None} \cup {Some(x) : x \in FormulaMappings}}
    /\ df = None
    /\ arg = <<>>
    /\ ret = NoCall
    /\ hist = [structured |-> FALSE, fitted |-> FALSE]

F_GLM_get_formula ==
    /\ self.cls = "GLM"
    /\ Outcome(Return(self, "get_formula", GLM_get_formula(self), None), None, <<>>)

NextFormula == F_GLM_get_formula

SpecFormula == InitFormula /\ [][NextFormula]_vars

----------------------------------------------------------------------------
(* SpecThreads: two threads call LeeCarter.fit once each, on the same      *)
(* instance or on two.  fit is taken statement by statement: every read    *)
(* and every write of an attribute of the instance is a step of its own,   *)
(* and the other thread can run between any two steps.  Here self holds    *)
(* the instances, df the surface each thread passes, arg the instance each *)
(* thread's call is on, ret each thread's outcome and hist each thread's   *)
(* frame: its position and the local values it holds.                      *)

Threads == 1..2

\* the surfaces the threads pass: the complete ones with rates below 1 (all
\* over the same ages and years) and one without the age column
ThreadSurfaces ==
    {StructureSurface(d).surface :
        d \in {x \in LeeCarterDatasets :
                  /\ Len(x.rows) = 4
                  /\ \A i \in DOMAIN x.rows :
                         x.rows[i][actual_col] = 1 /\ x.rows[i][expose_col] > 1}}
    \cup {Drop(OneCell, {age_col})}

\* log_qx = np.log(lc_df.pivot(...)) and the local a_x: both are local to the call
LogQx(d) ==
    LET crude_pivot == Pivot(d, year_col, age_col, "qx_raw")
    IN  GridMap(crude_pivot, LAMBDA y, a : FLog(crude_pivot.cell[y][a]))

\* e2 and e4 of fit, from the a_x and k_t read from the instance
LeeCarter_e2(log_qx, a_x, k_t) ==
    LET e1 == GridMap(log_qx, LAMBDA y, a :
                  FMul(FSub(log_qx.cell[y][a], a_x.val[a]), k_t.val[y]))
    IN  [a \in Range(log_qx.columns) |-> FSum(DownIndex(e1, a))]

LeeCarter_e4(k_t) ==
    FSum([i \in DOMAIN k_t.index |-> FMul(k_t.val[k_t.index[i]], k_t.val[k_t.index[i]])])

\* np.outer(self.b_x, self.k_t) transposed, labelled as the pivot is
LeeCarter_outer(log_qx, b_x, k_t) ==
    GridMap(log_qx, LAMBDA y, a : FMul(b_x.val[a], k_t.val[y]))

\* np.exp(a_x.values + b_x_k_t.values)
LeeCarter_exp(a_x, b_x_k_t) ==
    GridMap(b_x_k_t, LAMBDA y, a : FExp(FAdd(a_x.val[a], b_x_k_t.cell[y][a])))

\* faulty variant: the attribute is stored on the class, so on every instance
SetAttr_class(insts, i, name, v) ==
    [j \in DOMAIN insts |-> [insts[j] EXCEPT ![name] = Some(v)]]

\* self.<name> = v on instance i
SetAttr(insts, i, name, v) ==
    [insts EXCEPT ![i] = [@ EXCEPT ![name] = Some(v)]]

Frame(pc, operand, e2, b_x, b_x_k_t) ==
    [pc |-> pc, operand |-> operand, e2 |-> e2, b_x |-> b_x, b_x_k_t |-> b_x_k_t]

InitThreads ==
    /\ self = [i \in 1..2 |-> LeeCarter_init]
    /\ df \in [Threads -> ThreadSurfaces]
    /\ arg \in {<<1, 1>>, <<1, 2>>}
    /\ ret = [t \in Threads |-> NoCall]
    /\ hist = [t \in Threads |-> Frame("begin", None, None, None, None)]

\* thread t moves on to frame f
Goto(t, f) == hist' = [hist EXCEPT ![t] = f]

\* lines 300-323: the column check, the pivot, log_qx, a_x, self.a_x = a_x
Fit_store_a_x(t) ==
    /\ hist[t].pc = "begin"
    /\ LET d   == df[t]
           err == IF LacksAgeYear(d) THEN MissingAgeYearError
                  ELSE IF PivotError(d, year_col, age_col, "qx_raw") # NoError
                  THEN PivotError(d, year_col, age_col, "qx_raw")
                  ELSE IF d.rows = <<>> THEN NaNToIntegerError
                  ELSE NoError
       IN  IF err # NoError
           THEN /\ ret' = [ret EXCEPT ![t] = Raise(self[arg[t]], "fit", err, None).ret]
                /\ Goto(t, Frame("done", None, None, None, None))
                /\ UNCHANGED <<self, df, arg>>
           ELSE /\ self' = SetAttr(self, arg[t], "a_x", LeeCarter_a_x(LogQx(d)))
                /\ Goto(t, Frame("k_t_read_a_x", None, None, None, None))
                /\ UNCHANGED <<df, arg, ret>>

\* line 327, right-hand side: self.a_x is read
Fit_k_t_read_a_x(t) ==
    /\ hist[t].pc = "k_t_read_a_x"
    /\ Goto(t, Frame("store_k_t", self[arg[t]].a_x, None, None, None))
    /\ UNCHANGED <<self, df, arg, ret>>

\* line 327: self.k_t = (log_qx - <a_x read>).sum(axis=1)
Fit_store_k_t(t) ==
    /\ hist[t].pc = "store_k_t"
    /\ self' = SetAttr(self, arg[t], "k_t",
                       LeeCarter_k_t(LogQx(df[t]), Get(hist[t].operand)))
    /\ Goto(t, Frame("e1_read_a_x", None, None, None, None))
    /\ UNCHANGED <<df, arg, ret>>

\* line 328: self.a_x is read
Fit_e1_read_a_x(t) ==
    /\ hist[t].pc = "e1_read_a_x"
    /\ Goto(t, Frame("e1_read_k_t", self[arg[t]].a_x, None, None, None))
    /\ UNCHANGED <<self, df, arg, ret>>

\* lines 328-329: self.k_t is read, e1 and e2 are computed
Fit_e1_read_k_t(t) ==
    /\ hist[t].pc = "e1_read_k_t"
    /\ Goto(t, Frame("e3_read_k_t", None,
                     Some(LeeCarter_e2(LogQx(df[t]), Get(hist[t].operand),
                                       Get(self[arg[t]].k_t))),
                     None, None))
    /\ UNCHANGED <<self, df, arg, ret>>

\* lines 330-335: self.k_t is read again, e3, e4 and the local b_x are computed
Fit_e3_read_k_t(t) ==
    /\ hist[t].pc = "e3_read_k_t"
    /\ LET log_qx == LogQx(df[t])
           e2     == Get(hist[t].e2)
           e4     == LeeCarter_e4(Get(self[arg[t]].k_t))
           b_x    == Series(log_qx.columns,
                            [a \in Range(log_qx.columns) |-> FDiv(e2[a], e4)])
       IN  Goto(t, Frame("store_b_x", None, None, Some(b_x), None))
    /\ UNCHANGED <<self, df, arg, ret>>

\* line 336: self.b_x = b_x
Fit_store_b_x(t) ==
    /\ hist[t].pc = "store_b_x"
    /\ self' = SetAttr(self, arg[t], "b_x", Get(hist[t].b_x))
    /\ Goto(t, Frame("outer_read_b_x", None, None, None, None))
    /\ UNCHANGED <<df, arg, ret>>

\* line 340: self.b_x is read
Fit_outer_read_b_x(t) ==
    /\ hist[t].pc = "outer_read_b_x"
    /\ Goto(t, Frame("outer_read_k_t", self[arg[t]].b_x, None, None, None))
    /\ UNCHANGED <<self, df, arg, ret>>

\* lines 340-343: self.k_t is read, the local b_x_k_t is computed
Fit_outer_read_k_t(t) ==
    /\ hist[t].pc = "outer_read_k_t"
    /\ Goto(t, Frame("store_b_x_k_t", None, None, None,
                     Some(LeeCarter_outer(LogQx(df[t]), Get(hist[t].operand),
                                          Get(self[arg[t]].k_t)))))
    /\ UNCHANGED <<self, df, arg, ret>>

\* line 344: self.b_x_k_t = b_x_k_t
Fit_store_b_x_k_t(t) ==
    /\ hist[t].pc = "store_b_x_k_t"
    /\ self' = SetAttr(self, arg[t], "b_x_k_t", Get(hist[t].b_x_k_t))
    /\ Goto(t, Frame("store_lc_df", None, None, None, hist[t].b_x_k_t))
    /\ UNCHANGED <<df, arg, ret>>

\* lines 348-366: qx_lc from the local a_x and b_x_k_t, the merge,
\* self.lc_df = lc_df, return lc_df
Fit_store_lc_df(t) ==
    /\ hist[t].pc = "store_lc_df"
    /\ LET d      == df[t]
           qx_lc  == LeeCarter_exp(LeeCarter_a_x(LogQx(d)), Get(hist[t].b_x_k_t))
           melted == Melt(qx_lc, year_col, age_col, "qx_lc")
           on     == <<year_col, age_col>>
           sfx    == <<"_x", "_y">>
           err    == MergeErrorOf(d, melted, on, sfx)
           lc_df  == MergeLeft(d, melted, on, sfx)
       IN  IF err # NoError
           THEN /\ ret' = [ret EXCEPT ![t] = Raise(self[arg[t]], "fit", err, None).ret]
                /\ UNCHANGED self
           ELSE /\ self' = SetAttr(self, arg[t], "lc_df", lc_df)
                /\ ret' = [ret EXCEPT ![t] =
                              Return(self[arg[t]], "fit", lc_df, None).ret]
    /\ Goto(t, Frame("done", None, None, None, None))
    /\ UNCHANGED <<df, arg>>

NextThreads ==
    \/ \E t \in Threads : Fit_store_a_x(t)
    \/ \E t \in Threads : Fit_k_t_read_a_x(t)
    \/ \E t \in Threads : Fit_store_k_t(t)
    \/ \E t \in Threads : Fit_e1_read_a_x(t)
    \/ \E t \in Threads : Fit_e1_read_k_t(t)
    \/ \E t \in Threads : Fit_e3_read_k_t(t)
    \/ \E t \in Threads : Fit_store_b_x(t)
    \/ \E t \in Threads : Fit_outer_read_b_x(t)
    \/ \E t \in Threads : Fit_outer_read_k_t(t)
    \/ \E t \in Threads : Fit_store_b_x_k_t(t)
    \/ \E t \in Threads : Fit_store_lc_df(t)

SpecThreads == InitThreads /\ [][NextThreads]_vars

----------------------------------------------------------------------------
(* Properties *)

Keys(d) == {<<d.rows[i][age_col], d.rows[i][year_col]>> : i \in DOMAIN d.rows}

RowsAt(d, k) == {i \in DOMAIN d.rows : d.rows[i][age_col] = k[1] /\ d.rows[i][year_col] = k[2]}

RECURSIVE TotalOver(_, _, _)
TotalOver(d, c, I) ==
    IF I = {} THEN 0
    ELSE LET i == CHOOSE x \in I : TRUE
         IN  d.rows[i][c] + TotalOver(d, c, I \ {i})

Absent(d) == {c \in {age_col, year_col, actual_col, expose_col} : c \notin Range(d.columns)}

\* the surface has the key and rate columns, no key twice, and a row for every
\* age that occurs at every year that occurs
IsSurface(d) ==
    /\ \A c \in {age_col, year_col, "qx_raw"} : c \in Range(d.columns)
    /\ \A k \in Keys(d) : Cardinality(RowsAt(d, k)) = 1

IsComplete(d) ==
    /\ IsSurface(d)
    /\ d.rows # <<>>
    /\ \A k1, k2 \in Keys(d) : <<k1[1], k2[2]>> \in Keys(d)

\* C1: on an instance on which no structure_df, fit or fit_model has succeeded,
\* forecast, map and get_odds raise the not-fitted error, and the failing call
\* leaves every field of the instance as it was.
C1_UnfittedCallsRaiseNotFitted ==
    [][(~hist.structured /\ ~hist.fitted /\ ret'.op \in {"forecast", "map", "get_odds"})
          => (ret'.err = NotFittedError /\ self' = self)]_vars

C1_Witness ==
    /\ ret.op = "forecast"
    /\ ret.err = NotFittedError
    /\ self = CBD_init

\* C2: on a LeeCarter or CBD instance on which structure_df has succeeded and
\* fit never has, forecast and map raise the not-fitted error.
C2_StructuredCallsRaiseNotFitted ==
    (/\ self.cls \in {"LeeCarter", "CBD"}
     /\ hist.structured /\ ~hist.fitted
     /\ ret.op \in {"forecast", "map"})
        => ret.err = NotFittedError

\* C3: structure_df on a dataset lacking configured columns raises the
\* missing-columns error, whose list holds exactly the absent configured columns,
\* each once, and the instance is left as it was.
C3_MissingColumnsNamedStateKept ==
    [][(ret'.op = "structure_df" /\ Absent(Get(df')) # {})
          => /\ ret'.err = MissingColumnsError
             /\ Range(ret'.info) = Absent(Get(df'))
             /\ Len(ret'.info) = Cardinality(Absent(Get(df')))
             /\ self' = self]_vars

C3_Witness ==
    /\ ret.op = "structure_df"
    /\ ret.err = MissingColumnsError
    /\ Len(ret.info) = 2
    /\ self.cls = "LeeCarter"
    /\ self.k_t # None
    /\ self.k_t_i # None

\* C4: the surface structure_df returns and stores has exactly one row per
\* (age, year) key of the dataset, holding the sums of actual and of exposure
\* over the dataset's rows of that key.
C4_OneRowPerKeyWithSums ==
    Succeeded(ret, "structure_df") =>
        LET inp == Get(df)
            out == Get(ret.val)
        IN  /\ Keys(out) = Keys(inp)
            /\ \A k \in Keys(inp) : Cardinality(RowsAt(out, k)) = 1
            /\ \A j \in DOMAIN out.rows :
                   LET I == RowsAt(inp, <<out.rows[j][age_col], out.rows[j][year_col]>>)
                   IN  /\ out.rows[j][actual_col] = TotalOver(inp, actual_col, I)
                       /\ out.rows[j][expose_col] = TotalOver(inp, expose_col, I)
            /\ (IF self.cls = "LeeCarter" THEN self.lc_df ELSE self.cbd_df) = Some(out)

C4_Witness ==
    /\ Succeeded(ret, "structure_df")
    /\ Len(Get(df).rows) = 2
    /\ Len(Get(ret.val).rows) = 1
    /\ Get(ret.val).rows[1][actual_col] = 3
    /\ Get(ret.val).rows[1][expose_col] = 2

\* C5: a cell whose summed actual is 0 gets qx_raw = 0 whatever its summed
\* exposure; any other cell has, before the clip, the float ratio of the summed
\* actual to the summed exposure (an infinity of the actual's sign when the
\* exposure is 0).
C5_RawRateZeroOrRatio ==
    Succeeded(ret, "structure_df") =>
        LET out == Get(ret.val)
            raw == ret.info.raw
        IN  \A j \in DOMAIN out.rows :
                LET x == out.rows[j][actual_col]
                    e == out.rows[j][expose_col]
                IN  /\ x = 0 => raw[j] = [n |-> 0, d |-> 1]
                                /\ out.rows[j]["qx_raw"] = [n |-> 0, d |-> 1]
                    /\ (x # 0 /\ e # 0) => raw[j].d > 0 /\ raw[j].n * e = x * raw[j].d
                    /\ (x # 0 /\ e = 0) => raw[j] = [n |-> Sign(x), d |-> 0]

C5_Witness ==
    /\ Succeeded(ret, "structure_df")
    /\ \E j \in DOMAIN Get(ret.val).rows :
           /\ Get(ret.val).rows[j][actual_col] = 0
           /\ Get(ret.val).rows[j][expose_col] = 0
           /\ Get(ret.val).rows[j]["qx_raw"] = [n |-> 0, d |-> 1]
    /\ \E j \in DOMAIN Get(ret.val).rows :
           /\ Get(ret.val).rows[j][actual_col] = 2
           /\ Get(ret.val).rows[j][expose_col] = 1
           /\ ret.info.raw[j] = [n |-> 2, d |-> 1]

\* C6: every row of the surface structure_df returns has qx_raw in [0, 1].
C6_RatesInUnitInterval ==
    Succeeded(ret, "structure_df") =>
        \A j \in DOMAIN Get(ret.val).rows :
            LET q == Get(ret.val).rows[j]["qx_raw"]
            IN  q.d > 0 /\ 0 <= q.n /\ q.n <= q.d

\* the sign cases of actual / exposure > 1 and of actual / exposure <= 1
Over1(x, e) == (e > 0 /\ x > e) \/ (e = 0 /\ x > 0) \/ (e < 0 /\ x < e)

AtMost1(x, e) == (e > 0 /\ x <= e) \/ (e = 0 /\ x < 0) \/ (e < 0 /\ x >= e)

\* C7: structure_df does not fail on a dataset with the four columns; a cell whose
\* ratio actual/exposure exceeds 1 ends with qx_raw = 1, a cell whose ratio is
\* at most 1 keeps the ratio, and the reported count is the number of cells
\* whose ratio exceeded 1.
C7_ClippedToOneAndCounted ==
    (ret.op = "structure_df" /\ Absent(Get(df)) = {}) =>
        /\ ret.err = NoError
        /\ LET out == Get(ret.val)
               x(j) == out.rows[j][actual_col]
               e(j) == out.rows[j][expose_col]
               q(j) == out.rows[j]["qx_raw"]
           IN  /\ \A j \in DOMAIN out.rows : Over1(x(j), e(j)) => q(j) = [n |-> 1, d |-> 1]
               /\ \A j \in DOMAIN out.rows :
                      AtMost1(x(j), e(j)) =>
                          IF e(j) = 0 THEN q(j) = [n |-> -1, d |-> 0]
                          ELSE q(j).d > 0 /\ q(j).n * e(j) = x(j) * q(j).d
               /\ ret.info.capped =
                      Cardinality({j \in DOMAIN out.rows : Over1(x(j), e(j))})

C7_Witness ==
    /\ Succeeded(ret, "structure_df")
    /\ ret.info.capped = 1
    /\ \E j \in DOMAIN Get(ret.val).rows :
           /\ Get(ret.val).rows[j][actual_col] = 2
           /\ Get(ret.val).rows[j][expose_col] = 1
           /\ Get(ret.val).rows[j]["qx_raw"] = [n |-> 1, d |-> 1]
    /\ \E j \in DOMAIN Get(ret.val).rows : Get(ret.val).rows[j]["qx_raw"] = [n |-> -1, d |-> 1]

\* C8: fit on a surface that is not a full rectangle of ages and years fails.
C8_IncompleteSurfaceRejected ==
    (/\ ret.op = "fit"
     /\ IsSurface(Get(df))
     /\ ~IsComplete(Get(df)))
        => ret.err # NoError

\* C9: LeeCarter.fit on a surface lacking the age or the year column raises the
\* columns-required error and leaves every field of the instance as it was.
C9_FitWithoutKeyColumnsStateKept ==
    [][(/\ self.cls = "LeeCarter"
        /\ ret'.op = "fit"
        /\ (age_col \notin Range(Get(df').columns) \/ year_col \notin Range(Get(df').columns)))
          => (ret'.err = MissingAgeYearError /\ self' = self)]_vars

C9_Witness ==
    /\ ret.op = "fit"
    /\ ret.err = MissingAgeYearError
    /\ age_col \notin Range(Get(df).columns)
    /\ self.k_t # None
    /\ self.lc_df # None /\ "qx_lc" \in Range(Get(self.lc_df).columns)

\* what a later forecast or map reads, and the fit of a fresh instance
FittedFields(s) ==
    IF s.cls = "LeeCarter"
    THEN <<s.a_x, s.k_t, s.b_x, s.b_x_k_t, s.lc_df>>
    ELSE <<s.k_t_1, s.k_t_2, s.age_diff, s.ages, s.cbd_df>>

FreshFit(cls, d) ==
    IF cls = "LeeCarter" THEN LeeCarter_fit(LeeCarter_init, d) ELSE CBD_fit(CBD_init, d)

\* C10: a fit on an instance, whatever was fitted on it before, ends as the same
\* fit on a fresh instance does: with the same outcome and, when it succeeds,
\* with the same fitted parameters, age columns and stored surface.
C10_RefitReplaces ==
    ret.op = "fit" =>
        LET f == FreshFit(self.cls, Get(df))
        IN  /\ ret = f.ret
            /\ ret.err = NoError => FittedFields(self) = FittedFields(f.self)

C10_Witness ==
    /\ Succeeded(ret, "fit")
    /\ self.cls = "LeeCarter"
    /\ IsComplete(Get(df))
    /\ "qx_lc" \notin Range(Get(df).columns)
    /\ \E d1 \in LeeCarterDatasets :
           LET S1 == StructureSurface(d1).surface
           IN  /\ IsComplete(S1)
               /\ S1 # Get(df)
               /\ self.k_t_i = Some(RandomWalk(LeeCarter_decompose(S1).k_t, 2))
               /\ self.k_t_i # Some(RandomWalk(Get(self.k_t), 2))

Stored(s) == IF s.cls = "LeeCarter" THEN s.lc_df ELSE s.cbd_df

\* C11: the surface a fit returns and stores has the rows of the surface passed
\* in, in the same number and with the same keys, and its fields are those of
\* the surface passed in plus the rate field, which occurs exactly once under
\* its own name, also when the surface passed in already carries it.
C11_FitAddsOneRateField ==
    (self.cls \in {"LeeCarter", "CBD"} /\ Succeeded(ret, "fit")) =>
        LET inp == Get(df)
            out == Get(ret.val)
        IN  /\ Len(out.rows) = Len(inp.rows)
            /\ Keys(out) = Keys(inp)
            /\ Range(out.columns) = Range(inp.columns) \cup {RateName(self.cls)}
            /\ Cardinality({i \in DOMAIN out.columns :
                               out.columns[i] = RateName(self.cls)}) = 1
            /\ Stored(self) = Some(out)

\* the years and ages of the parameters fitted last
FittedYears(s) ==
    IF s.cls = "LeeCarter" THEN Get(s.k_t).index ELSE Get(s.k_t_1).index

FittedAges(s) ==
    IF s.cls = "LeeCarter" THEN Get(s.a_x).index ELSE Get(s.ages)

\* C12: on an instance on which a fit has succeeded, forecast(years) returns a
\* grid whose year keys are Y+1, ..., Y+years in this order, Y being the last
\* fitted year (so none is a fitted year), whose age keys are the fitted ages,
\* and which holds one rate per (year, age) cell.
C12_ForecastYearsFollowLastFittedYear ==
    (self.cls \in {"LeeCarter", "CBD"} /\ hist.fitted /\ ret.op = "forecast") =>
        /\ ret.err = NoError
        /\ LET g     == Get(ret.val)
               years == arg[1]
               Y     == Last(FittedYears(self))
           IN  /\ g.index = [h \in 1..years |-> Y + h]
               /\ Len(g.index) = years
               /\ \A y \in Range(g.index) : y \notin Range(FittedYears(self))
               /\ g.columns = FittedAges(self)
               /\ DOMAIN g.cell = Range(g.index)
               /\ \A y \in Range(g.index) : DOMAIN g.cell[y] = Range(FittedAges(self))

C12_Witness ==
    /\ self.cls = "CBD"
    /\ hist.fitted
    /\ Succeeded(ret, "forecast")
    /\ arg = <<2>>
    /\ FittedYears(self) = <<2000, 2001>>
    /\ Get(ret.val).index = <<2002, 2003>>
    /\ Get(ret.val).columns = <<50, 51>>

\* the calls of the instance's class
Forecast(s, years) ==
    IF s.cls = "LeeCarter" THEN LeeCarter_forecast(s, years) ELSE CBD_forecast(s, years)

Map(s, d, c) ==
    IF s.cls = "LeeCarter" THEN LeeCarter_map(s, d, c[1], c[2]) ELSE CBD_map(s, d, c[1], c[2])

\* C13: a forecast call changes none of the fitted parameters nor the stored
\* surface, and every forecast and every map gives after it the outcome it
\* would have given before it.
C13_ForecastKeepsTheFit ==
    [][(self.cls \in {"LeeCarter", "CBD"} /\ ret'.op = "forecast") =>
          /\ FittedFields(self') = FittedFields(self)
          /\ \A n \in 0..MaxYears : Forecast(self', n).ret = Forecast(self, n).ret
          /\ \A d \in MapDatasets, c \in ColumnArgs :
                 Map(self', d, c).ret = Map(self, d, c).ret]_vars

C13_Witness ==
    /\ self.cls = "LeeCarter"
    /\ hist.fitted
    /\ Succeeded(ret, "forecast")
    /\ arg = <<2>>
    /\ Len(Get(self.k_t_i)) = 2
    /\ Get(self.k_t_i)[1] # Get(self.k_t_i)[2]
    /\ "qx_lc" \in Range(Get(self.lc_df).columns)

\* C14: map on a fitted instance, with the default column arguments and a
\* dataset that has the age and year columns, returns a dataset with as many
\* rows as the caller's, in which every column of the caller's dataset other
\* than the rate column is present with its values, and to which the rate
\* column only is added.
C14_MapKeepsRowsAndColumns ==
    (/\ self.cls \in {"LeeCarter", "CBD"}
     /\ hist.fitted
     /\ ret.op = "map"
     /\ arg = <<None, None>>
     /\ HasCol(Get(df), age_col) /\ HasCol(Get(df), year_col)
     /\ HasCol(Get(Stored(self)), RateName(self.cls)))
        => /\ ret.err = NoError
           /\ LET d    == Get(df)
                  out  == Get(ret.val)
                  rate == RateName(self.cls)
              IN  /\ Len(out.rows) = Len(d.rows)
                  /\ Range(out.columns) = Range(d.columns) \cup {rate}
                  /\ \A c \in Range(d.columns) \ {rate} :
                         \A i \in DOMAIN d.rows : out.rows[i][c] = d.rows[i][c]

\* the rows of d with the key of row r, r being keyed by age_col and year_col
Matches(d, r) ==
    {j \in DOMAIN d.rows : d.rows[j][age_col] = r[age_col] /\ d.rows[j][year_col] = r[year_col]}

\* C15: in the dataset a map returns, row i is row i of the caller's dataset; it
\* carries the fitted rate of its key when the stored surface has the key and a
\* missing rate when it has not; the rate column occurs once and no column
\* holds the rates the caller's dataset came with.
C15_MapJoinsFittedRates ==
    (self.cls \in {"LeeCarter", "CBD"} /\ Succeeded(ret, "map")) =>
        LET d      == Get(df)
            out    == Get(ret.val)
            stored == Get(Stored(self))
            rate   == RateName(self.cls)
        IN  /\ Len(out.rows) = Len(d.rows)
            /\ Cardinality({k \in DOMAIN out.columns : out.columns[k] = rate}) = 1
            /\ (rate \o "_old") \notin Range(out.columns)
            /\ \A i \in DOMAIN d.rows :
                   /\ out.rows[i][age_col] = d.rows[i][age_col]
                   /\ out.rows[i][year_col] = d.rows[i][year_col]
                   /\ IF Matches(stored, d.rows[i]) = {}
                      THEN out.rows[i][rate] = NaN
                      ELSE \A j \in Matches(stored, d.rows[i]) :
                               out.rows[i][rate] = stored.rows[j][rate]

C15_Witness ==
    /\ self.cls = "LeeCarter"
    /\ Succeeded(ret, "map")
    /\ Get(df).columns = <<age_col, year_col, "policy", "qx_lc">>
    /\ Len(Get(df).rows) = 2
    /\ Get(df).rows[1]["qx_lc"] = [n |-> 10, d |-> 10]
    /\ Matches(Get(self.lc_df), Get(df).rows[1]) # {}
    /\ Matches(Get(self.lc_df), Get(df).rows[2]) = {}
    /\ Get(ret.val).rows[1]["qx_lc"] = [exp |-> [n |-> -1, d |-> 1]]
    /\ Get(ret.val).rows[2]["qx_lc"] = NaN

\* C16: a map call, whether it returns or raises, leaves every field of the
\* instance and the caller's dataset as they were.
C16_MapReadsOnly ==
    [][(self.cls \in {"LeeCarter", "CBD"} /\ ret'.op = "map")
          => (self' = self /\ ret'.info = df')]_vars

C16_Witness ==
    /\ self.cls = "CBD"
    /\ Succeeded(ret, "map")
    /\ self.k_1_f # None
    /\ ret.info = df
    /\ Len(Get(df).rows) = 2
    /\ "qx_cbd" \in Range(Get(df).columns)
    /\ Get(df).rows[1]["qx_cbd"] # Get(ret.val).rows[1]["qx_cbd"]
    /\ Get(ret.val) # Get(df)

\* the keys of a mapping that are not cat_pass, those that are, wrapped in C(),
\* and terms joined by " + "
RECURSIVE PlainKeys(_)
PlainKeys(m) ==
    IF m = <<>> THEN <<>>
    ELSE (IF Head(m)[2] # "cat_pass" THEN <<Head(m)[1]>> ELSE <<>>) \o PlainKeys(Tail(m))

RECURSIVE WrappedKeys(_)
WrappedKeys(m) ==
    IF m = <<>> THEN <<>>
    ELSE (IF Head(m)[2] = "cat_pass" THEN <<"C(" \o Head(m)[1] \o ")">> ELSE <<>>)
         \o WrappedKeys(Tail(m))

RECURSIVE PlusJoined(_)
PlusJoined(t) ==
    IF Len(t) = 1 THEN t[1] ELSE PlusJoined(SubSeq(t, 1, Len(t) - 1)) \o " + " \o t[Len(t)]

\* C17: with a non-empty mapping get_formula returns the target name, " ~ ", and
\* the terms joined by " + ": the keys that are not cat_pass in mapping order,
\* then C(key) for the cat_pass keys in mapping order; two numeric features and
\* a cat_pass feature give "y ~ feature1 + feature2 + C(feature3)".
C17_FormulaFromMapping ==
    (ret.op = "get_formula" /\ self.mapping # None /\ Get(self.mapping) # <<>>) =>
        LET m == Get(self.mapping)
        IN  /\ ret.val = Some(self.y \o " ~ " \o PlusJoined(PlainKeys(m) \o WrappedKeys(m)))
            /\ m = <<<<"feature1", "numeric">>, <<"feature2", "numeric">>,
                     <<"feature3", "cat_pass">>>>
                   => ret.val = Some("y ~ feature1 + feature2 + C(feature3)")

C17_Witness ==
    /\ ret.op = "get_formula"
    /\ self.mapping = Some(<<<<"feature3", "cat_pass">>, <<"feature1", "numeric">>,
                             <<"feature2", "ordinal">>>>)
    /\ ret.val = Some("y ~ feature1 + feature2 + C(feature3)")

\* C18: get_odds on a fitted GLM returns, with or without display, the series of
\* the exponentiated coefficients, keyed by the parameter names (the intercept
\* and one per feature).
C18_OddsReturned ==
    (self.cls = "GLM" /\ hist.fitted /\ ret.op = "get_odds") =>
        /\ ret.err = NoError
        /\ DOMAIN Get(ret.val) = {"index", "val"}
        /\ LET params == Get(self.model).params
               odds   == Get(ret.val)
           IN  /\ odds.index = params.index
               /\ \A x \in Range(params.index) :
                      odds.val[x] = [exp |-> [n |-> params.val[x], d |-> 1]]

\* C19: fit_model succeeds and fits with the family the caller passes, with
\* Binomial when none is passed, whether r_style is set or not, and the model
\* it returns is the one the instance stores from then on.
C19_FitsWithTheFamilyPassed ==
    (self.cls = "GLM" /\ ret.op = "fit_model") =>
        /\ ret.err = NoError
        /\ self.model = ret.val
        /\ Get(self.model).family = (IF arg[1] = None THEN "Binomial" ELSE Get(arg[1]))

\* a float that is infinite or NaN; the symbolic exp and expit values are finite
NotFinite(q) == "d" \in DOMAIN q /\ q.d = 0

\* the boundary rates of the class's transform: log at 0, logit at 0 and at 1
AtBoundary(cls, q) ==
    \/ q = [n |-> 0, d |-> 1]
    \/ cls = "CBD" /\ q = [n |-> 1, d |-> 1]

\* the fitted parameters of the instance, as a set of floats
FittedValues(s) ==
    IF s.cls = "LeeCarter"
    THEN UNION {{Get(p).val[x] : x \in Range(Get(p).index)} : p \in {s.a_x, s.k_t, s.b_x}}
    ELSE UNION {{Get(p).val[x] : x \in Range(Get(p).index)} : p \in {s.k_t_1, s.k_t_2}}

\* C20: a fit on a surface that holds a boundary rate (qx_raw = 0 for LeeCarter,
\* qx_raw = 0 or 1 for CBD) raises, or else completes with fitted parameters
\* and fitted rates that are all finite.
C20_BoundaryRateNotFittedSilently ==
    (/\ self.cls \in {"LeeCarter", "CBD"}
     /\ ret.op = "fit"
     /\ IsSurface(Get(df))
     /\ \E q \in RatesOf(Get(df)) : AtBoundary(self.cls, q))
        => \/ ret.err # NoError
           \/ /\ \A v \in FittedValues(self) : ~NotFinite(v)
              /\ \A i \in DOMAIN Get(ret.val).rows :
                     ~NotFinite(Get(ret.val).rows[i][RateName(self.cls)])

\* v = f[last] + h * (f[last] - f[first]) / n for a fitted factor f over n
\* years whose first and last values are finite, by cross-multiplication
FollowsDrift(f, v, h) ==
    LET a == f.val[f.index[1]]
        b == f.val[Last(f.index)]
        n == Len(f.index)
    IN  (a.d > 0 /\ b.d > 0) =>
            /\ v.d > 0
            /\ v.n * n * a.d * b.d = v.d * (n * b.n * a.d + h * (b.n * a.d - a.n * b.d))

\* C21: the forecast value of a time factor at step h = 1..years is
\* f[last] + mu * h with mu = (f[last] - f[first]) / n, f being that factor's
\* fitted values by year and n their number: k_t for LeeCarter, k_t_1 and
\* k_t_2 each from its own values for CBD.
C21_DriftFromOwnHistory ==
    (self.cls \in {"LeeCarter", "CBD"} /\ Succeeded(ret, "forecast")) =>
        LET years == arg[1]
        IN  IF self.cls = "LeeCarter"
            THEN /\ DOMAIN Get(self.k_t_i) = 1..years
                 /\ \A h \in 1..years :
                        FollowsDrift(Get(self.k_t), Get(self.k_t_i)[h], h)
            ELSE LET Y == Last(Get(self.k_t_1).index)
                 IN  /\ Get(self.k_1_f).index = [h \in 1..years |-> Y + h]
                     /\ Get(self.k_2_f).index = [h \in 1..years |-> Y + h]
                     /\ \A h \in 1..years :
                            /\ FollowsDrift(Get(self.k_t_1), Get(self.k_1_f).val[Y + h], h)
                            /\ FollowsDrift(Get(self.k_t_2), Get(self.k_2_f).val[Y + h], h)

C21_Witness ==
    /\ self.cls = "LeeCarter"
    /\ Succeeded(ret, "forecast")
    /\ arg = <<2>>
    /\ Get(self.k_t).val[2000] = [n |-> 3, d |-> 2]
    /\ Get(self.k_t).val[2001] = [n |-> -3, d |-> 2]
    /\ Get(self.k_t_i) = <<[n |-> -3, d |-> 1], [n |-> -9, d |-> 2]>>

\* C22: with a mapping supplied that has no key outside cat_pass and no
\* cat_pass key (a mapping without entries), get_formula returns the
\* intercept-only formula, the target name followed by " ~ 1".
C22_InterceptOnlyFormula ==
    (/\ ret.op = "get_formula"
     /\ self.mapping # None
     /\ PlainKeys(Get(self.mapping)) = <<>>
     /\ WrappedKeys(Get(self.mapping)) = <<>>)
        => ret.val = Some(self.y \o " ~ 1")

\* C23: with no mapping supplied get_formula returns the target name, " ~ ", and
\* the columns of self.X in column order joined by " + ", self.X being the
\* intercept column followed by the columns of the caller's feature matrix.
C23_FormulaFromColumns ==
    (ret.op = "get_formula" /\ self.mapping = None) =>
        /\ ret.val = Some(self.y \o " ~ " \o PlusJoined(self.X))
        /\ self.X[1] = "const"
        /\ Tail(self.X) \in FeatureMatrices

C23_Witness ==
    /\ ret.op = "get_formula"
    /\ self.mapping = None
    /\ self.X = <<"const", "feature2", "feature1">>
    /\ ret.val = Some("y ~ const + feature2 + feature1")

\* the values of a Series in index order, their sum with nothing left out, and
\* a complete surface whose rates are all strictly positive
ValuesOf(p) == [i \in DOMAIN p.index |-> p.val[p.index[i]]]

RECURSIVE Total(_)
Total(s) == IF s = <<>> THEN Float(0) ELSE FAdd(Head(s), Total(Tail(s)))

IsPositiveSurface(d) ==
    /\ IsComplete(d)
    /\ \A q \in RatesOf(d) : FGt(q, Float(0))

\* C24: after a LeeCarter fit on a complete surface with strictly positive
\* rates the time index k_t sums to zero over the fitted years.
C24_TimeIndexSumsToZero ==
    (self.cls = "LeeCarter" /\ Succeeded(ret, "fit") /\ IsPositiveSurface(Get(df))) =>
        Total(ValuesOf(Get(self.k_t))) = Float(0)

C24_Witness ==
    /\ self.cls = "LeeCarter"
    /\ Succeeded(ret, "fit")
    /\ IsPositiveSurface(Get(df))
    /\ ValuesOf(Get(self.k_t)) = <<[n |-> 3, d |-> 2], [n |-> -3, d |-> 2]>>

\* C28: after a LeeCarter fit on a complete surface with strictly positive
\* rates the age sensitivities b_x sum to one over the fitted ages when the
\* time index is not identically zero; when it is identically zero (a single
\* year, or the same rates in every year) every b_x is 0/0, not a number.
C28_SensitivitiesSumToOne ==
    (self.cls = "LeeCarter" /\ Succeeded(ret, "fit") /\ IsPositiveSurface(Get(df))) =>
        IF \E k \in Range(ValuesOf(Get(self.k_t))) : k # Float(0)
        THEN Total(ValuesOf(Get(self.b_x))) = Float(1)
        ELSE \A b \in Range(ValuesOf(Get(self.b_x))) : IsNaN(b)

C28_Witness ==
    /\ self.cls = "LeeCarter"
    /\ Succeeded(ret, "fit")
    /\ IsPositiveSurface(Get(df))
    /\ Len(Get(self.k_t).index) = 2
    /\ ValuesOf(Get(self.b_x)) = <<[n |-> 1, d |-> 3], [n |-> 2, d |-> 3]>>

\* the single-year case of C28: the time index is zero and b_x is undefined
C28_WitnessUndefined ==
    /\ self.cls = "LeeCarter"
    /\ Succeeded(ret, "fit")
    /\ IsPositiveSurface(Get(df))
    /\ Len(Get(self.k_t).index) = 1
    /\ ValuesOf(Get(self.b_x)) = <<NaN, NaN>>

\* the parameters a fit leaves on an instance, and a thread that has returned
Params(s) == <<s.a_x, s.k_t, s.b_x>>

Done(t) == hist[t].pc = "done"

\* C25: two fit calls running concurrently on two different instances do not
\* affect each other: an instance is untouched until its own call starts, and
\* when its own call has returned the call's outcome and every field of the
\* instance are those of the same fit running alone on a fresh instance.
C25_SeparateInstancesIndependent ==
    arg[1] # arg[2] =>
        \A t \in Threads :
            /\ hist[t].pc = "begin" => self[arg[t]] = LeeCarter_init
            /\ Done(t) =>
                   /\ ret[t] = FreshFit("LeeCarter", df[t]).ret
                   /\ self[arg[t]] = FreshFit("LeeCarter", df[t]).self

\* two fit calls on the same instance have both returned a surface, and the
\* instance holds a parameter set that is the result of neither call alone
C25_Witness ==
    /\ arg[1] = arg[2]
    /\ \A t \in Threads : Done(t) /\ Succeeded(ret[t], "fit")
    /\ \A t \in Threads :
           Params(self[arg[1]]) # Params(FreshFit("LeeCarter", df[t]).self)

\* two fit calls on two instances have both returned a surface
C25_WitnessSeparate ==
    /\ arg[1] # arg[2]
    /\ df[1] # df[2]
    /\ \A t \in Threads : Done(t) /\ Succeeded(ret[t], "fit")

\* the instance holds fitted parameters: k_t for LeeCarter, k_t_1 for CBD
HoldsParameters(s) ==
    IF s.cls = "LeeCarter" THEN s.k_t # None ELSE s.k_t_1 # None

\* C26: whenever a LeeCarter (CBD) instance holds fitted parameters, its stored
\* surface carries the rate column qx_lc (qx_cbd) and its ages and years are
\* the ages and years the parameters were fitted on, whatever sequence of
\* structure_df, fit, forecast and map calls led there.
C26_StoredSurfaceIsTheFittedOne ==
    (self.cls \in {"LeeCarter", "CBD"} /\ HoldsParameters(self)) =>
        /\ Stored(self) # None
        /\ RateName(self.cls) \in Range(Get(Stored(self)).columns)
        /\ {k[1] : k \in Keys(Get(Stored(self)))} = Range(FittedAges(self))
        /\ {k[2] : k \in Keys(Get(Stored(self)))} = Range(FittedYears(self))

\* the key columns a map call joins on: the names passed, the configured names
\* for those left out
KeyNames(a) ==
    <<IF a[1] = None THEN age_col ELSE Get(a[1]),
      IF a[2] = None THEN year_col ELSE Get(a[2])>>

\* C27: map(df, age_col=A, year_col=Y) on a fitted instance, df holding the
\* columns A and Y (the configured names where A or Y is left out) and no
\* column ending in _old, returns df with the fitted rate joined on: row i
\* carries the rate the stored surface holds for age df[A] and year df[Y], a
\* missing rate when the surface has no such key.
C27_MapJoinsOnTheNamedColumns ==
    (/\ self.cls \in {"LeeCarter", "CBD"}
     /\ ret.op = "map"
     /\ \A c \in Range(KeyNames(arg)) : HasCol(Get(df), c)
     /\ (RateName(self.cls) \o "_old") \notin Range(Get(df).columns)) =>
        /\ ret.err = NoError
        /\ LET d      == Get(df)
               out    == Get(ret.val)
               stored == Get(Stored(self))
               rate   == RateName(self.cls)
               A      == KeyNames(arg)[1]
               Y      == KeyNames(arg)[2]
               hits(r) == {j \in DOMAIN stored.rows :
                              /\ stored.rows[j][age_col] = r[A]
                              /\ stored.rows[j][year_col] = r[Y]}
           IN  /\ Len(out.rows) = Len(d.rows)
               /\ \A i \in DOMAIN d.rows :
                      /\ out.rows[i][A] = d.rows[i][A]
                      /\ out.rows[i][Y] = d.rows[i][Y]
                      /\ IF hits(d.rows[i]) = {}
                         THEN out.rows[i][rate] = NaN
                         ELSE \A j \in hits(d.rows[i]) :
                                  out.rows[i][rate] = stored.rows[j][rate]

\* the first m years of a forecast grid, and the years of the forecast indices
\* the instance stores
FirstYears(g, m) ==
    [index   |-> SubSeq(g.index, 1, m),
     columns |-> g.columns,
     cell    |-> [y \in Range(SubSeq(g.index, 1, m)) |-> g.cell[y]]]

StoredHorizon(s) ==
    IF s.cls = "LeeCarter" THEN DOMAIN Get(s.k_t_i)
    ELSE IF Get(s.k_1_f).index = Get(s.k_2_f).index
    THEN DOMAIN Get(s.k_1_f).index ELSE {}

\* C29: after forecast(n) has returned a grid, the same call made again returns
\* the same grid, forecast(m) for m <= n returns the first m years of that
\* grid, and the forecast indices the instance stores are those of the last
\* call alone: n entries now, m entries after forecast(m).
C29_ForecastRepeatable ==
    (self.cls \in {"LeeCarter", "CBD"} /\ Succeeded(ret, "forecast")) =>
        LET n == arg[1]
            g == Get(ret.val)
        IN  /\ Forecast(self, n).ret = ret
            /\ Forecast(self, n).self = self
            /\ StoredHorizon(self) = 1..n
            /\ \A m \in 0..n :
                   LET f == Forecast(self, m)
                   IN  /\ f.ret.err = NoError
                       /\ Get(f.ret.val) = FirstYears(g, m)
                       /\ StoredHorizon(f.self) = 1..m

C29_Witness ==
    /\ self.cls = "CBD"
    /\ Succeeded(ret, "forecast")
    /\ arg = <<2>>
    /\ Get(self.k_1_f).index = <<2002, 2003>>
    /\ Get(self.k_1_f).val[2002] # Get(self.k_1_f).val[2003]
    /\ Get(Forecast(self, 1).ret.val).index = <<2002>>
    /\ Get(ret.val).cell[2002] # Get(ret.val).cell[2003]

\* the surface lacks the age, year or qx_raw column, or holds a key twice
IsBroken(d) ==
    \/ \E c \in {age_col, year_col, "qx_raw"} : c \notin Range(d.columns)
    \/ \E k \in Keys(d) : Cardinality(RowsAt(d, k)) > 1

\* C30: a LeeCarter or CBD fit on a surface that lacks the age, year or qx_raw
\* column or holds two rows with the same (age, year) key raises and leaves
\* every field of the instance as it was: the fitted parameters and the stored
\* surface keep their values, so a fitted instance forecasts as before and an
\* unfitted one still is unfitted.
C30_FailedFitKeepsTheModel ==
    [][(/\ self.cls \in {"LeeCarter", "CBD"}
        /\ ret'.op = "fit"
        /\ IsBroken(Get(df')))
          => /\ ret'.err # NoError
             /\ ret'.val = None
             /\ self' = self
             /\ hist'.fitted = hist.fitted
             /\ \A n \in 0..MaxYears : Forecast(self', n).ret = Forecast(self, n).ret]_vars

C30_Witness ==
    /\ self.cls = "CBD"
    /\ ret.op = "fit"
    /\ ret.err = DuplicateEntriesError
    /\ \E k \in Keys(Get(df)) : Cardinality(RowsAt(Get(df), k)) > 1
    /\ self.k_t_1 # None
    /\ self.cbd_df # None /\ "qx_cbd" \in Range(Get(self.cbd_df).columns)
    /\ Succeeded(Forecast(self, 1).ret, "forecast")

====
